---- MODULE Spec2Model ----
(***************************************************************************)
(* Forecast composition pipeline of the restaurant sales forecaster:       *)
(* ensemble blend, spike-day uplift overlay, guardrails, growth            *)
(* calibration, manual overrides and the orchestration in                  *)
(* generate_forecast (src/forecasting/pipeline/export.py).                 *)
(*                                                                         *)
(* Numbers.  The program computes in floating point; the model computes    *)
(* in exact rationals <<n, d>> (d > 0, lowest terms), so that products and *)
(* quotients (multiplier * quantile, target / forecast total) are exact.   *)
(* Quantities are finite: NaN cells are modelled only where the code       *)
(* handles them (missing is_closed, missing override cells).               *)
(***************************************************************************)
EXTENDS Integers, Sequences, FiniteSets, TLC

VARIABLES
    \* ---- generate_forecast (one run of the orchestrator) ----
    pc,            \* position in generate_forecast
    config,        \* the configuration structure
    df_hours,      \* forecast-period operating-hours calendar
    df_sales,      \* sales history scenario
    model_preds,   \* the per-model predictions handed to the ensemble
    weights,       \* loaded ensemble weights
    df_forecast,   \* the forecast frame, mutated by every step
    df_uplift,     \* local df_uplift: "unbound" or the priors table
    n_adjusted,    \* local n_adjusted: -1 when unbound
    shutil_bound,  \* whether the function-local name shutil is bound
    calibration_mode_used,
    files,         \* output files written so far
    outcome,       \* "running", "returned" or "raised"
    steps,         \* the steps executed so far, in order
    blend,         \* the frame ensemble.predict returned
    guard_in,      \* the frame that entered the first guardrails
    spike_fail,    \* where the spike step raised ("none" if it did not)
    calib_fail,    \* where the calibration step raised ("none" if it did not)
    overrides,     \* the override file apply_overrides found
    run_log,       \* the run metadata record
    \* ---- one call of a component function ----
    call,          \* the arguments of the call
    ret            \* its result ("none" before the call)

pipeVars == <<pc, config, df_hours, df_sales, model_preds, weights, df_forecast,
              df_uplift, n_adjusted, shutil_bound, calibration_mode_used, files,
              outcome, steps, blend, guard_in, spike_fail, calib_fail, overrides,
              run_log>>
funVars == <<call, ret>>
vars == <<pipeVars, funVars>>

-----------------------------------------------------------------------------
(* Exact rational arithmetic standing for the program's float arithmetic.  *)

Abs(x) == IF x < 0 THEN -x ELSE x

RECURSIVE GCD(_, _)
GCD(a, b) == IF b = 0 THEN a ELSE GCD(b, a % b)

\* The rational n/d in lowest terms with a positive denominator (d # 0).
Rat(n, d) ==
    LET g == GCD(Abs(n), Abs(d))
        s == IF d < 0 THEN -1 ELSE 1
    IN  <<(s * n) \div g, (s * d) \div g>>

RInt(n) == <<n, 1>>
RZero == RInt(0)
ROne == RInt(1)
RMul(a, b) == Rat(a[1] * b[1], a[2] * b[2])
RAdd(a, b) == Rat(a[1] * b[2] + b[1] * a[2], a[2] * b[2])
RSub(a, b) == Rat(a[1] * b[2] - b[1] * a[2], a[2] * b[2])
RDiv(a, b) == Rat(a[1] * b[2], a[2] * b[1])
RLe(a, b) == a[1] * b[2] <= b[1] * a[2]
RLt(a, b) == a[1] * b[2] < b[1] * a[2]
RMax(a, b) == IF RLt(a, b) THEN b ELSE a
RMin(a, b) == IF RLt(b, a) THEN b ELSE a
\* numpy.clip(x, lo, hi) = minimum(maximum(x, lo), hi)
RClip(x, lo, hi) == RMin(RMax(x, lo), hi)

RECURSIVE RSum(_, _)
\* Sum of f[x] over the finite set S.
RSum(f, S) ==
    IF S = {} THEN RZero
    ELSE LET x == CHOOSE y \in S : TRUE IN RAdd(f[x], RSum(f, S \ {x}))

-----------------------------------------------------------------------------
(* Frames.  A forecast frame is [cols, rows]: cols is the set of optional  *)
(* columns present, rows maps each date of the frame to its row.  A row    *)
(* carries every field; a field whose column is absent holds its default.  *)
(* is_closed cells are "T", "F" or "NA" (a missing value).                 *)

\* Dates are <<year, month, day>>.  The forecast-period dates of the model:
\* Black Friday 2026, a plain Monday of the same month, and December 26.
ForecastDates == {<<2026, 11, 27>>, <<2026, 11, 30>>, <<2026, 12, 26>>}

MonthOf(d) == d[2]

\* Days before the first of each month (2025 and 2026 are not leap years).
DaysBeforeMonth == <<0, 31, 59, 90, 120, 151, 181, 212, 243, 273, 304, 334>>

\* Days since 2025-01-01.
DayNumber(d) == (d[1] - 2025) * 365 + DaysBeforeMonth[d[2]] + d[3] - 1

\* dt.dayofweek, Monday = 0 (2025-01-01 is a Wednesday).
DayOfWeek(d) == (DayNumber(d) + 2) % 7

\* The fourth Thursday of November (Thanksgiving) of the years of the model.
ThanksgivingDay(year) == IF year = 2025 THEN 27 ELSE 26

\* The spike flags add_spike_day_features sets to True on date d, among the
\* flag columns of the model.
SpikeDayFlags(d) ==
    (IF d[2] = 11 /\ d[3] = ThanksgivingDay(d[1]) + 1
     THEN {"is_black_friday", "is_day_after_thanksgiving"} ELSE {})
    \cup (IF d[2] = 12 /\ d[3] = 26 THEN {"is_day_after_christmas"} ELSE {})
    \cup (IF d[2] = 12 /\ d[3] >= 26 /\ d[3] <= 31 THEN {"is_year_end_week"} ELSE {})

\* The flag columns the spike-day steps use, in the order of the spike_flags
\* list of compute_spike_uplift_priors.  The other flag columns are False on
\* every forecast date of the model and are left out.
SpikeFlagOrder == <<"is_black_friday", "is_day_after_thanksgiving",
                    "is_day_after_christmas", "is_year_end_week">>
SpikeFlagColumns == {SpikeFlagOrder[i] : i \in 1..Len(SpikeFlagOrder)}

\* A row with quantiles q = <<p50, p80, p90>> (integers) and closed cell c.
Row(q, c) == [p50 |-> RInt(q[1]), p80 |-> RInt(q[2]), p90 |-> RInt(q[3]),
              is_closed |-> c, flags |-> {},
              adjustment_multiplier |-> ROne, adjustment_log |-> <<>>,
              is_excluded |-> FALSE, calibration_scale |-> ROne]

Frame(cols, flagcols, rows) == [cols |-> cols, flagcols |-> flagcols, rows |-> rows]

-----------------------------------------------------------------------------
(* apply_guardrails                                                        *)

\* df.merge(df_hours[["ds", "is_closed"]], on="ds", how="left"): the calendar's
\* cell for date d, missing when the calendar has no row for d.
HoursClosed(hrs, d) == IF d \in DOMAIN hrs THEN hrs[d] ELSE "NA"

\* The is_closed cell after the merge: when the frame already has is_closed the
\* calendar's column arrives as is_closed_hours and is copied over it.
MergedClosedKeepOwn(df, hrs, d) ==
    IF "is_closed" \in df.cols THEN df.rows[d].is_closed ELSE HoursClosed(hrs, d)

MergedClosed(df, hrs, d) ==
    IF "is_closed" \in df.cols
    THEN LET is_closed_hours == HoursClosed(hrs, d) IN is_closed_hours
    ELSE HoursClosed(hrs, d)

\* fillna(False)
FillNaFalse(c) == IF c = "NA" THEN "F" ELSE c

\* df.loc[df["is_closed"], ["p50", "p80", "p90"]] = 0
ZeroClosedSkip(r) == r

ZeroClosed(r) ==
    IF r.is_closed = "T"
    THEN [r EXCEPT !.p50 = RZero, !.p80 = RZero, !.p90 = RZero]
    ELSE r

\* The clip applied to the upper quantiles only.
ClampUpperOnly(r) ==
    [r EXCEPT !.p80 = RMax(r.p80, RZero), !.p90 = RMax(r.p90, RZero)]

\* clip(lower=0) on each quantile
ClampNonNegative(r) ==
    [r EXCEPT !.p50 = RMax(r.p50, RZero), !.p80 = RMax(r.p80, RZero),
              !.p90 = RMax(r.p90, RZero)]

\* A slip in the order of the two max statements: p90 is raised against the
\* p80 of before.
EnforceMonotonicSwapped(r) ==
    [r EXCEPT !.p90 = RMax(r.p80, r.p90), !.p80 = RMax(r.p50, r.p80)]

\* p80 = max(p50, p80); p90 = max(p80, p90), in this order
EnforceMonotonic(r) ==
    LET r80 == [r EXCEPT !.p80 = RMax(r.p50, r.p80)]
    IN  [r80 EXCEPT !.p90 = RMax(r80.p80, r80.p90)]

ApplyGuardrails(df, hrs) ==
    Frame(df.cols \cup {"is_closed"}, df.flagcols,
          [d \in DOMAIN df.rows |->
              EnforceMonotonic(ClampNonNegative(ZeroClosed(
                  [df.rows[d] EXCEPT !.is_closed = FillNaFalse(MergedClosed(df, hrs, d))])))])

-----------------------------------------------------------------------------
(* compute_spike_uplift_priors (ds_max = None), on a sales history with    *)
(* the spike flags added by add_spike_day_features.                        *)

\* df_open: the open days of the history.
OpenDays(hist) == {a \in DOMAIN hist.rows : ~hist.rows[a].is_closed}

RECURSIVE SortedY(_, _)
SortedY(hist, days) ==
    IF days = {} THEN <<>>
    ELSE LET a == CHOOSE x \in days : \A z \in days : hist.rows[x].y <= hist.rows[z].y
         IN  <<hist.rows[a].y>> \o SortedY(hist, days \ {a})

\* Series.median() of y over a non-empty set of days.
MedianY(hist, days) ==
    LET s == SortedY(hist, days)
        n == Len(s)
    IN  IF n % 2 = 1 THEN RInt(s[(n + 1) \div 2])
        ELSE Rat(s[n \div 2] + s[n \div 2 + 1], 2)

\* Series.mode()[0]: the most frequent value, the smallest one on a tie.
ModeOf(f, days) ==
    LET count(v) == Cardinality({a \in days : f[a] = v})
        vals == {f[a] : a \in days}
        best == {v \in vals : \A u \in vals : count(u) <= count(v)}
    IN  CHOOSE v \in best : \A u \in best : v <= u

\* The cascade with steps taken when fewer than 2 days.
MatchedBaselineFromTwo(hist, flag, spike_days) ==
    LET open == OpenDays(hist)
        spike_dow == ModeOf([a \in spike_days |-> DayOfWeek(a)], spike_days)
        spike_month == ModeOf([a \in spike_days |-> MonthOf(a)], spike_days)
        nonspike == {a \in open : flag \notin SpikeDayFlags(a)}
        dow_month == {a \in nonspike : DayOfWeek(a) = spike_dow /\ MonthOf(a) = spike_month}
        dow_all == {a \in nonspike : DayOfWeek(a) = spike_dow}
    IN  IF Cardinality(dow_month) >= 2 THEN [days |-> dow_month, method |-> "dow_month"]
        ELSE IF Cardinality(dow_all) >= 2 THEN [days |-> dow_all, method |-> "dow_all"]
        ELSE [days |-> nonspike, method |-> "all_nonspike"]

\* The matched baseline of a flag, [days, method]: the cascade
\* dow_month -> dow_all -> all_nonspike, each step taken when fewer than 3 days.
MatchedBaseline(hist, flag, spike_days) ==
    LET open == OpenDays(hist)
        spike_dow == ModeOf([a \in spike_days |-> DayOfWeek(a)], spike_days)
        spike_month == ModeOf([a \in spike_days |-> MonthOf(a)], spike_days)
        nonspike == {a \in open : flag \notin SpikeDayFlags(a)}
        dow_month == {a \in nonspike : DayOfWeek(a) = spike_dow /\ MonthOf(a) = spike_month}
        dow_all == {a \in nonspike : DayOfWeek(a) = spike_dow}
    IN  IF Cardinality(dow_month) >= 3 THEN [days |-> dow_month, method |-> "dow_month"]
        ELSE IF Cardinality(dow_all) >= 3 THEN [days |-> dow_all, method |-> "dow_all"]
        ELSE [days |-> nonspike, method |-> "all_nonspike"]

\* The confidence with 'medium' from 2 observations on.
ConfidenceMediumFromTwo(n_obs) ==
    IF n_obs >= 5 THEN "high"
    ELSE IF n_obs >= 2 THEN "medium"
    ELSE "very_low"

Confidence(n_obs) ==
    IF n_obs >= 5 THEN "high"
    ELSE IF n_obs >= 3 THEN "medium"
    ELSE IF n_obs >= 2 THEN "low"
    ELSE "very_low"

\* A lower cap of 0.5.
MinMultiplierHalf == Rat(1, 2)

\* The lower cap of the multiplier, 0.7.
MinMultiplier == Rat(7, 10)

\* The priors row of one flag (min_observations >= 1).
PriorRow(hist, flag, min_observations, shrinkage_factor, max_multiplier) ==
    LET spike_days == {a \in OpenDays(hist) : flag \in SpikeDayFlags(a)}
        n_obs == Cardinality(spike_days)
    IN  IF n_obs < min_observations
        THEN [spike_flag |-> flag, uplift_multiplier |-> ROne, confidence |-> "insufficient",
              n_obs |-> n_obs, baseline_method |-> "none"]
        ELSE LET baseline == MatchedBaseline(hist, flag, spike_days)
             IN  IF baseline.days = {}
                 THEN [spike_flag |-> flag, uplift_multiplier |-> ROne,
                       confidence |-> "no_baseline", n_obs |-> n_obs,
                       baseline_method |-> "none"]
                 ELSE LET spike_median == MedianY(hist, spike_days)
                          baseline_median == MedianY(hist, baseline.days)
                          raw_uplift == IF RLt(RZero, baseline_median)
                                        THEN RDiv(spike_median, baseline_median) ELSE ROne
                          shrunk_uplift == RAdd(ROne, RMul(shrinkage_factor,
                                                           RSub(raw_uplift, ROne)))
                      IN  [spike_flag |-> flag,
                           uplift_multiplier |-> RClip(shrunk_uplift, MinMultiplier,
                                                       max_multiplier),
                           confidence |-> Confidence(n_obs), n_obs |-> n_obs,
                           baseline_method |-> baseline.method]

\* The priors table: empty when the history has no open day, else one row per
\* flag column, in the order of the spike_flags list.
ComputeSpikeUpliftPriors(hist, min_observations, shrinkage_factor, max_multiplier) ==
    IF OpenDays(hist) = {} THEN <<>>
    ELSE [i \in 1..Len(SpikeFlagOrder) |->
             PriorRow(hist, SpikeFlagOrder[i], min_observations, shrinkage_factor,
                      max_multiplier)]

-----------------------------------------------------------------------------
(* apply_spike_uplift_overlay.  df_uplift is the priors table: a sequence  *)
(* of rows [spike_flag, uplift_multiplier].                                *)

\* spike_flags = df_uplift['spike_flag'].tolist()
SpikeFlagList(upl) == [i \in 1..Len(upl) |-> upl[i].spike_flag]

\* uplift_map = dict(zip(spike_flag, uplift_multiplier)): the last row of a
\* flag gives its multiplier.
UpliftMap(upl) ==
    [f \in {upl[i].spike_flag : i \in 1..Len(upl)} |->
        LET last == CHOOSE i \in 1..Len(upl) :
                        /\ upl[i].spike_flag = f
                        /\ \A j \in 1..Len(upl) : upl[j].spike_flag = f => j <= i
        IN  upl[last].uplift_multiplier]

RECURSIVE ActiveFlags(_, _, _, _)
\* The inner loop over spike_flags for one row r of frame df: the flags that
\* are a column of the frame, have a prior and are True in the row, in order.
ActiveFlags(df, r, upl, flags) ==
    IF flags = <<>> THEN <<>>
    ELSE LET flag == Head(flags)
             rest == ActiveFlags(df, r, upl, Tail(flags))
         IN  IF flag \notin df.flagcols THEN rest
             ELSE IF flag \notin DOMAIN UpliftMap(upl) THEN rest
             ELSE IF flag \in r.flags THEN <<flag>> \o rest
             ELSE rest

ActiveMultipliers(upl, active_flags) ==
    [i \in 1..Len(active_flags) |-> UpliftMap(upl)[active_flags[i]]]

RECURSIVE SeqProduct(_)
SeqProduct(ms) == IF ms = <<>> THEN ROne ELSE RMul(Head(ms), SeqProduct(Tail(ms)))

\* The compounding of before V5.0: the product of the active multipliers.
ChosenMultiplierProduct(active_multipliers) == SeqProduct(active_multipliers)

RECURSIVE SeqMax(_)
SeqMax(ms) == IF Len(ms) = 1 THEN ms[1] ELSE RMax(Head(ms), SeqMax(Tail(ms)))

\* max_multiplier = max(active_multipliers)
ChosenMultiplier(active_multipliers) == SeqMax(active_multipliers)

OverlayRow(df, r, upl) ==
    LET active_flags == ActiveFlags(df, r, upl, SpikeFlagList(upl))
        active_multipliers == ActiveMultipliers(upl, active_flags)
    IN  IF Len(active_multipliers) > 0
        THEN LET max_multiplier == ChosenMultiplier(active_multipliers)
             IN  [r EXCEPT !.p50 = RMul(r.p50, max_multiplier),
                           !.p80 = RMul(r.p80, max_multiplier),
                           !.p90 = RMul(r.p90, max_multiplier),
                           !.adjustment_multiplier = max_multiplier,
                           !.adjustment_log = active_flags]
        ELSE [r EXCEPT !.adjustment_multiplier = ROne, !.adjustment_log = <<>>]

ApplySpikeUpliftOverlay(df, upl) ==
    Frame(df.cols \cup {"adjustment_log", "adjustment_multiplier"}, df.flagcols,
          [d \in DOMAIN df.rows |-> OverlayRow(df, df.rows[d], upl)])

\* add_spike_day_features on a frame with a ds column: the flag columns are
\* (re)computed from the date alone.
AddSpikeDayFeatures(df) ==
    Frame(df.cols, df.flagcols \cup SpikeFlagColumns,
          [d \in DOMAIN df.rows |-> [df.rows[d] EXCEPT !.flags = SpikeDayFlags(d)]])

\* n_adjusted = (adjustment_multiplier != 1.0).sum()
CountAdjusted(df) ==
    Cardinality({d \in DOMAIN df.rows : df.rows[d].adjustment_multiplier # ROne})

-----------------------------------------------------------------------------
(* EnsembleModel.predict.  model_predictions maps a model name to its      *)
(* rows, [date -> [p50, p80, p90, horizon]]; a model has at most one row   *)
(* per date.  weights maps a bucket to [model -> weight].                  *)

\* The order in which generate_forecast inserts the models into the dict.
ModelOrder == <<"seasonal_naive_weekly", "gbm_long", "chronos2">>
ModelNames == {ModelOrder[i] : i \in 1..Len(ModelOrder)}

assign_horizon_bucket(horizon) ==
    IF 1 <= horizon /\ horizon <= 7 THEN "1-7"
    ELSE IF 8 <= horizon /\ horizon <= 14 THEN "8-14"
    ELSE IF 15 <= horizon /\ horizon <= 30 THEN "15-30"
    ELSE IF 31 <= horizon /\ horizon <= 90 THEN "31-90"
    ELSE IF 91 <= horizon /\ horizon <= 380 THEN "91-380"
    ELSE "other"

\* The models with a non-empty frame (len(df) == 0 is skipped).
NonEmptyModels(mp) == {m \in DOMAIN mp : DOMAIN mp[m] # {}}

TargetDates(mp) == UNION {DOMAIN mp[m] : m \in NonEmptyModels(mp)}

\* available_models: the models with a row for target date d.
AvailableModels(mp, d) == {m \in NonEmptyModels(mp) : d \in DOMAIN mp[m]}

\* df_date["horizon_bucket"].iloc[0]: the bucket of the first row for d, which
\* is the row of the first model, in insertion order, that has the date.
DateBucket(mp, d) ==
    LET first == CHOOSE i \in 1..Len(ModelOrder) :
                     /\ ModelOrder[i] \in AvailableModels(mp, d)
                     /\ \A j \in 1..(i - 1) : ModelOrder[j] \notin AvailableModels(mp, d)
    IN  assign_horizon_bucket(mp[ModelOrder[first]][d].horizon)

\* self.weights.get(bucket, {m: 1.0 / len(self.models) for m in self.models})
BucketWeights(w, models, bucket) ==
    IF bucket \in DOMAIN w THEN w[bucket]
    ELSE [m \in models |-> Rat(1, Cardinality(models))]

\* A model without an entry given an equal share instead of 0.0.
RawWMissingAsEqual(wb, available) ==
    [m \in available |-> IF m \in DOMAIN wb THEN wb[m] ELSE Rat(1, Cardinality(available))]

\* raw_w = [weights.get(m, 0.0) for m in available_models]
RawW(wb, available) == [m \in available |-> IF m \in DOMAIN wb THEN wb[m] ELSE RZero]

\* The bucket's weights used as they are, without renormalising them over the
\* models present.
NormWRaw(wb, available) == RawW(wb, available)

\* norm_w: uniform when raw_w.sum() <= 0, raw_w / raw_w.sum() otherwise.
NormW(wb, available) ==
    LET raw_w == RawW(wb, available)
        total == RSum(raw_w, available)
        n == Cardinality(available)
    IN  IF RLe(total, RZero)
        THEN [m \in available |-> Rat(1, IF n > 1 THEN n ELSE 1)]
        ELSE [m \in available |-> RDiv(raw_w[m], total)]

\* The weights the blend of date d uses.
EffectiveWeights(w, models, mp, d) ==
    NormW(BucketWeights(w, models, DateBucket(mp, d)), AvailableModels(mp, d))

\* float((df_models[q].values * norm_w).sum())
BlendQuantile(mp, d, norm_w, q) ==
    RSum([m \in DOMAIN norm_w |-> RMul(mp[m][d][q], norm_w[m])], DOMAIN norm_w)

EnsemblePredict(w, models, mp) ==
    Frame({}, {},
          [d \in TargetDates(mp) |->
              LET norm_w == EffectiveWeights(w, models, mp, d)
              IN  [Row(<<0, 0, 0>>, "NA") EXCEPT
                      !.p50 = BlendQuantile(mp, d, norm_w, "p50"),
                      !.p80 = BlendQuantile(mp, d, norm_w, "p80"),
                      !.p90 = BlendQuantile(mp, d, norm_w, "p90")]])

-----------------------------------------------------------------------------
(* apply_growth_calibration.  A sales history is [cols, rows]: rows maps a *)
(* date <<year, month, day>> to [y, is_closed], one row per date.          *)

DateLe(a, b) ==
    \/ a[1] < b[1]
    \/ a[1] = b[1] /\ a[2] < b[2]
    \/ a[1] = b[1] /\ a[2] = b[2] /\ a[3] <= b[3]

\* df_hist["ds"].max()
MaxDate(hist) == CHOOSE a \in DOMAIN hist.rows : \A b \in DOMAIN hist.rows : DateLe(b, a)

\* The most recent complete year of the history.
BaselineYear(hist) ==
    LET max_date == MaxDate(hist)
        max_year == max_date[1]
    IN  IF max_date[2] = 12 /\ max_date[3] = 31 THEN max_year ELSE max_year - 1

\* The dates of df_hist_year that count for the baseline: those of the baseline
\* year, closed days left out when the history has an is_closed column.
BaselineDays(hist) ==
    {a \in DOMAIN hist.rows :
        /\ a[1] = BaselineYear(hist)
        /\ ("is_closed" \in hist.cols => ~hist.rows[a].is_closed)}

SalesTotal(hist, days) == RSum([a \in days |-> RInt(hist.rows[a].y)], days)

\* hist_month_totals.index: the months with a baseline day.
BaselineMonths(hist) == {a[2] : a \in BaselineDays(hist)}

HistMonthTotal(hist, month) ==
    SalesTotal(hist, {a \in BaselineDays(hist) : a[2] = month})

\* The exclusion without the spike flags: closed days only.
IsExcludedClosedOnly(df, r, excluded_spike_flags) ==
    "is_closed" \in df.cols /\ r.is_closed = "T"

\* df["is_excluded"]: any excluded flag that is a column and True, or closed.
IsExcluded(df, r, excluded_spike_flags) ==
    \/ \E flag \in excluded_spike_flags : flag \in df.flagcols /\ flag \in r.flags
    \/ "is_closed" \in df.cols /\ r.is_closed = "T"

MarkExcluded(df, excluded_spike_flags) ==
    [df EXCEPT !.rows =
        [d \in DOMAIN df.rows |->
            [df.rows[d] EXCEPT !.is_excluded = IsExcluded(df, df.rows[d], excluded_spike_flags)]]]

P50Total(df, days) == RSum([d \in days |-> df.rows[d].p50], days)

\* The clamp without its upper side.
ClampScaleLowerOnly(raw_scale, min_scale, max_scale) == RMax(raw_scale, min_scale)

\* np.clip(raw_scale, min_scale, max_scale)
ClampScale(raw_scale, min_scale, max_scale) == RClip(raw_scale, min_scale, max_scale)

\* The scale computed without taking the excluded total off the target.
RawScaleIgnoringExcluded(target_total, excluded_total, nonexcluded_total) ==
    RDiv(target_total, nonexcluded_total)

\* scale = (target_total - excluded_total) / nonexcluded_total
RawScale(target_total, excluded_total, nonexcluded_total) ==
    RDiv(RSub(target_total, excluded_total), nonexcluded_total)

\* The scaling that leaves p50 as it was.
ScaleRowsUpperOnly(df, days, scale) ==
    [df EXCEPT !.rows =
        [d \in DOMAIN df.rows |->
            IF d \in days
            THEN [df.rows[d] EXCEPT !.p80 = RMul(@, scale),
                                    !.p90 = RMul(@, scale), !.calibration_scale = scale]
            ELSE df.rows[d]]]

\* The rows of `days` multiplied by scale, with the scale recorded on them.
ScaleRows(df, days, scale) ==
    [df EXCEPT !.rows =
        [d \in DOMAIN df.rows |->
            IF d \in days
            THEN [df.rows[d] EXCEPT !.p50 = RMul(@, scale), !.p80 = RMul(@, scale),
                                    !.p90 = RMul(@, scale), !.calibration_scale = scale]
            ELSE df.rows[d]]]

\* df["calibration_scale"] = 1.0
InitScale(df) ==
    [df EXCEPT !.cols = @ \cup {"calibration_scale"},
               !.rows = [d \in DOMAIN df.rows |-> [df.rows[d] EXCEPT !.calibration_scale = ROne]]]

ApplyAnnualCalibration(df, hist, target_yoy_rate, min_scale, max_scale) ==
    LET baseline_total == SalesTotal(hist, BaselineDays(hist))
        target_total == RMul(baseline_total, RAdd(ROne, target_yoy_rate))
        excluded == {d \in DOMAIN df.rows : df.rows[d].is_excluded}
        nonexcluded == DOMAIN df.rows \ excluded
        current_total_excluded == P50Total(df, excluded)
        current_total_nonexcluded == P50Total(df, nonexcluded)
    IN  IF RLe(baseline_total, RZero) THEN InitScale(df)
        ELSE IF RLe(current_total_nonexcluded, RZero) THEN InitScale(df)
        ELSE ScaleRows(InitScale(df), nonexcluded,
                 ClampScale(RawScale(target_total, current_total_excluded,
                                     current_total_nonexcluded),
                            min_scale, max_scale))

\* The days of `month` the loop of _apply_monthly_calibration scales: none when
\* the month is not in the baseline or has no positive non-excluded total.
MonthNonExcluded(df, month) ==
    {d \in DOMAIN df.rows : MonthOf(d) = month /\ ~df.rows[d].is_excluded}

MonthExcluded(df, month) ==
    {d \in DOMAIN df.rows : MonthOf(d) = month /\ df.rows[d].is_excluded}

MonthSkipped(df, hist, month) ==
    \/ month \notin BaselineMonths(hist)
    \/ RLe(P50Total(df, MonthNonExcluded(df, month)), RZero)

MonthScale(df, hist, month, target_yoy_rate, min_scale, max_scale) ==
    LET target_month_total == RMul(HistMonthTotal(hist, month), RAdd(ROne, target_yoy_rate))
    IN  ClampScale(RawScale(target_month_total, P50Total(df, MonthExcluded(df, month)),
                            P50Total(df, MonthNonExcluded(df, month))),
                   min_scale, max_scale)

RECURSIVE MonthlyLoop(_, _, _, _, _, _)
\* for month in range(1, 13), from `month` on.
MonthlyLoop(df, hist, month, target_yoy_rate, min_scale, max_scale) ==
    IF month > 12 THEN df
    ELSE MonthlyLoop(
             IF MonthSkipped(df, hist, month) THEN df
             ELSE ScaleRows(df, MonthNonExcluded(df, month),
                            MonthScale(df, hist, month, target_yoy_rate, min_scale, max_scale)),
             hist, month + 1, target_yoy_rate, min_scale, max_scale)

ApplyMonthlyCalibration(df, hist, target_yoy_rate, min_scale, max_scale) ==
    LET df1 == [InitScale(df) EXCEPT !.cols = @ \cup {"month"}]
    IN  MonthlyLoop(df1, hist, 1, target_yoy_rate, min_scale, max_scale)

\* One row of the calibration log.
LogRow(before, after) ==
    [is_excluded |-> after.is_excluded,
     p50_before |-> before.p50, p80_before |-> before.p80, p90_before |-> before.p90,
     p50_after |-> after.p50, p80_after |-> after.p80, p90_after |-> after.p90,
     calibration_scale |-> after.calibration_scale]

\* apply_growth_calibration: [raised, df, log].  An invalid mode raises
\* ValueError.
ApplyGrowthCalibration(df_in, hist, target_yoy_rate, excluded_spike_flags, mode, min_scale, max_scale) ==
    LET df == MarkExcluded(df_in, excluded_spike_flags)
        out == IF mode = "annual"
               THEN ApplyAnnualCalibration(df, hist, target_yoy_rate, min_scale, max_scale)
               ELSE ApplyMonthlyCalibration(df, hist, target_yoy_rate, min_scale, max_scale)
    IN  IF mode \notin {"annual", "monthly"}
        THEN [raised |-> TRUE, df |-> df_in, log |-> <<>>]
        ELSE [raised |-> FALSE,
              df |-> [out EXCEPT !.rows =
                         [d \in DOMAIN out.rows |-> [out.rows[d] EXCEPT !.is_excluded = FALSE]]],
              log |-> [d \in DOMAIN out.rows |-> LogRow(df.rows[d], out.rows[d])]]

-----------------------------------------------------------------------------
(* apply_overrides.  An override file is [exists, cols, rows]: cols are    *)
(* the quantile columns of the CSV, rows maps a date to its cells, one row *)
(* per date; a cell is [na, v] (na: the cell is empty).                    *)

OverrideCell(ovr, d, q) ==
    IF d \in DOMAIN ovr.rows THEN ovr.rows[d][q] ELSE [na |-> TRUE, v |-> RZero]

\* The override column taken as it is, an empty cell read as 0.
OverrideValueWithoutFillna(df, ovr, d, q) ==
    IF q \in ovr.cols THEN OverrideCell(ovr, d, q).v ELSE df.rows[d][q]

\* df[q] = df[q_override].fillna(df[q]) for the quantile columns of the file
OverrideValue(df, ovr, d, q) ==
    IF q \in ovr.cols /\ ~OverrideCell(ovr, d, q).na
    THEN OverrideCell(ovr, d, q).v
    ELSE df.rows[d][q]

ApplyOverrides(df, ovr) ==
    IF ~ovr.exists THEN df
    ELSE [df EXCEPT !.rows =
             [d \in DOMAIN df.rows |->
                 [df.rows[d] EXCEPT !.p50 = OverrideValue(df, ovr, d, "p50"),
                                    !.p80 = OverrideValue(df, ovr, d, "p80"),
                                    !.p90 = OverrideValue(df, ovr, d, "p90")]]]

-----------------------------------------------------------------------------
(* Inputs of generate_forecast.                                            *)

SalesRow(y, closed) == [y |-> y, is_closed |-> closed]

\* A complete 2025 with a Black Friday spike; Thanksgiving is closed.
HistorySpiky ==
    [cols |-> {"is_closed"},
     rows |-> (<<2025, 11, 14>> :> SalesRow(10, FALSE)) @@ (<<2025, 11, 21>> :> SalesRow(10, FALSE))
              @@ (<<2025, 11, 27>> :> SalesRow(0, TRUE)) @@ (<<2025, 11, 28>> :> SalesRow(30, FALSE))
              @@ (<<2025, 12, 26>> :> SalesRow(20, FALSE)) @@ (<<2025, 12, 31>> :> SalesRow(10, FALSE))]

\* Flat sales, history through 2026-11-20: every multiplier is 1.0.
HistoryFlat ==
    [cols |-> {"is_closed"},
     rows |-> (<<2025, 11, 21>> :> SalesRow(10, FALSE)) @@ (<<2025, 11, 28>> :> SalesRow(10, FALSE))
              @@ (<<2025, 12, 31>> :> SalesRow(10, FALSE)) @@ (<<2026, 11, 20>> :> SalesRow(10, FALSE))]

\* A first year of sales: the baseline year 2025 has no row.
HistoryFirstYear ==
    [cols |-> {"is_closed"},
     rows |-> (<<2026, 11, 13>> :> SalesRow(10, FALSE)) @@ (<<2026, 11, 20>> :> SalesRow(12, FALSE))]

SalesHistories == {HistorySpiky, HistoryFlat, HistoryFirstYear}

\* A complete 2025 in which the restaurant was closed on every recorded day
\* of November.
HistoryClosedNovember ==
    [cols |-> {"is_closed"},
     rows |-> (<<2025, 11, 21>> :> SalesRow(0, TRUE)) @@ (<<2025, 11, 28>> :> SalesRow(0, TRUE))
              @@ (<<2025, 12, 26>> :> SalesRow(20, FALSE)) @@ (<<2025, 12, 31>> :> SalesRow(10, FALSE))]

\* One row of a model's predictions; horizon = target_date - issue_date.
PredRow(q, d, issue_date) ==
    [p50 |-> RInt(q[1]), p80 |-> RInt(q[2]), p90 |-> RInt(q[3]),
     horizon |-> DayNumber(d) - DayNumber(issue_date)]

\* The models are black boxes: the baseline predicts the dates of the hours
\* calendar with p50 = p80 = p90, the gradient-boosted quantiles may cross or
\* be negative.  Of the five models, three are kept, in insertion order.
PredsAllDates(issue_date, hrs) ==
    ("seasonal_naive_weekly" :> [d \in DOMAIN hrs |-> PredRow(<<10, 10, 10>>, d, issue_date)])
    @@ ("gbm_long" :> [d \in ForecastDates |-> PredRow(<<12, 11, 16>>, d, issue_date)])

PredsPartial(issue_date, hrs) ==
    ("seasonal_naive_weekly" :> [d \in DOMAIN hrs |-> PredRow(<<10, 10, 10>>, d, issue_date)])
    @@ ("gbm_long" :> [d \in {<<2026, 11, 30>>} |-> PredRow(<<-4, 6, 8>>, d, issue_date)])
    @@ ("chronos2" :> [d \in {<<2026, 11, 27>>} |-> PredRow(<<9, 12, 14>>, d, issue_date)])

ModelPredictions(issue_date, hrs) ==
    {PredsAllDates(issue_date, hrs), PredsPartial(issue_date, hrs)}

Buckets == <<"1-7", "8-14", "15-30", "31-90", "91-380">>
BucketNames == {Buckets[i] : i \in 1..Len(Buckets)}

WeightsEven ==
    [b \in BucketNames |-> ("seasonal_naive_weekly" :> Rat(1, 2)) @@ ("gbm_long" :> Rat(1, 2))]
WeightsGbmOnly ==
    [b \in BucketNames |-> ("seasonal_naive_weekly" :> RZero) @@ ("gbm_long" :> ROne)]
LoadedWeights == {WeightsEven, WeightsGbmOnly}

\* ensemble.models = df_weights["model_name"].unique()
WeightModels(w) == UNION {DOMAIN w[b] : b \in DOMAIN w}

\* The calendar has at most one row per date; a date may have no row.
HoursCalendars ==
    {hrs \in UNION {[S -> {"T", "F"}] : S \in SUBSET ForecastDates} :
        /\ <<2026, 11, 27>> \in DOMAIN hrs
        /\ <<2026, 12, 26>> \in DOMAIN hrs /\ hrs[<<2026, 12, 26>>] = "F"}

\* config.get("spike_uplift", {}) with the defaults of generate_forecast.
SpikeConfig == [min_observations |-> 1, shrinkage_factor |-> Rat(1, 4),
                max_multiplier |-> Rat(8, 5)]

GrowthConfig(enabled, mode) ==
    [enabled |-> enabled, target_yoy_rate |-> Rat(1, 10), mode |-> mode,
     min_scale |-> Rat(4, 5), max_scale |-> Rat(5, 4)]

Configs ==
    {[spike_uplift |-> SpikeConfig, growth_calibration |-> g] :
        g \in {GrowthConfig(FALSE, "monthly"), GrowthConfig(TRUE, "monthly"),
                GrowthConfig(TRUE, "annual"), GrowthConfig(TRUE, "weekly")}}

Cell(n) == [na |-> FALSE, v |-> RInt(n)]
NoCell == [na |-> TRUE, v |-> RZero]

NoOverrideFile == [exists |-> FALSE, cols |-> {}, rows |-> <<>>]
OverrideP50 ==
    [exists |-> TRUE, cols |-> {"p50"},
     rows |-> (<<2026, 11, 27>> :> [p50 |-> Cell(100), p80 |-> NoCell, p90 |-> NoCell])]
OverrideMixed ==
    [exists |-> TRUE, cols |-> {"p50", "p80", "p90"},
     rows |-> (<<2026, 11, 27>> :> [p50 |-> Cell(-5), p80 |-> NoCell, p90 |-> Cell(3)])
              @@ (<<2026, 11, 30>> :> [p50 |-> NoCell, p80 |-> Cell(1), p90 |-> NoCell])]
OverrideFiles == {NoOverrideFile, OverrideP50, OverrideMixed}

EmptyFrame == Frame({}, {}, <<>>)
Unbound == [bound |-> FALSE, table |-> <<>>]
NoRunLog == [written |-> FALSE, spike_days_adjusted |-> 0, calibration_mode |-> "none"]

-----------------------------------------------------------------------------
(* generate_forecast.  One action per step; pc is the next step.  The      *)
(* operations inside the two try blocks may raise (spike_fail, calib_fail  *)
(* name the operation that did); the file writes outside them succeed.     *)

StepOrder == <<"blend", "spike", "guard1", "calib", "overrides", "guard2",
               "finalize", "run_log", "rollups">>

PcAfterIn(order, p) ==
    LET i == CHOOSE j \in 1..Len(order) : order[j] = p
    IN  IF i = Len(order) THEN "done" ELSE order[i + 1]

\* Growth calibration placed before the first guardrails.
PcAfterCalibFirst(p) ==
    PcAfterIn(<<"blend", "spike", "calib", "guard1", "overrides", "guard2",
                "finalize", "run_log", "rollups">>, p)

\* The statement that follows step p in the body of generate_forecast.
PcAfter(p) == PcAfterIn(StepOrder, p)

LogStep(name, in, out) == Append(steps, [step |-> name, input |-> in, output |-> out])

PipeInit ==
    /\ pc = "blend"
    /\ config \in Configs
    /\ df_hours \in HoursCalendars
    /\ df_sales \in SalesHistories
    /\ model_preds \in ModelPredictions(MaxDate(df_sales), df_hours)
    /\ weights \in LoadedWeights
    /\ df_forecast = EmptyFrame
    /\ df_uplift = Unbound
    /\ n_adjusted = -1
    /\ shutil_bound = FALSE
    /\ calibration_mode_used = "none"
    /\ files = {}
    /\ outcome = "running"
    /\ steps = <<>>
    /\ blend = EmptyFrame
    /\ guard_in = EmptyFrame
    /\ spike_fail = "none"
    /\ calib_fail = "none"
    /\ overrides = NoOverrideFile
    /\ run_log = NoRunLog

\* df_forecast = ensemble.predict(model_predictions)
Blend ==
    /\ pc = "blend"
    /\ LET out == EnsemblePredict(weights, WeightModels(weights), model_preds)
       IN  /\ df_forecast' = out
           /\ blend' = out
           /\ steps' = LogStep("ensemble_blend", EmptyFrame, out)
    /\ pc' = PcAfter("blend")
    /\ UNCHANGED <<config, df_hours, df_sales, model_preds, weights, df_uplift, n_adjusted,
                   shutil_bound, calibration_mode_used, files, outcome, guard_in,
                   spike_fail, calib_fail, overrides, run_log, funVars>>

\* The operations of the spike-uplift try block that may raise, in order.
SpikeFailPoints == {"none", "compute_priors", "save_priors", "add_flags", "apply_overlay",
                    "save_log", "copy_log"}

\* df_forecast.merge(df_hours_2026[["ds", "is_closed"]], how="left") and
\* fillna(False), when the frame has no is_closed column yet.
MergeClosedColumn(df, hrs) ==
    IF "is_closed" \in df.cols THEN df
    ELSE Frame(df.cols \cup {"is_closed"}, df.flagcols,
               [d \in DOMAIN df.rows |->
                   [df.rows[d] EXCEPT !.is_closed = FillNaFalse(HoursClosed(hrs, d))]])

\* The spike-uplift try block; fp is the operation that raises.
SpikeUplift ==
    /\ pc = "spike"
    /\ \E fp \in SpikeFailPoints :
          LET sc == config.spike_uplift
              upl == ComputeSpikeUpliftPriors(df_sales, sc.min_observations,
                                              sc.shrinkage_factor, sc.max_multiplier)
              flagged == AddSpikeDayFeatures(df_forecast)
              lifted == ApplySpikeUpliftOverlay(flagged, upl)
              n == CountAdjusted(lifted)
              out == IF fp \in {"compute_priors", "save_priors", "add_flags"} THEN df_forecast
                     ELSE IF fp = "apply_overlay" THEN flagged
                     ELSE IF n = 0 THEN lifted
                     ELSE MergeClosedColumn(lifted, df_hours)
          IN  /\ fp \in {"save_log", "copy_log"} => n > 0
              /\ df_forecast' = out
              /\ df_uplift' = IF fp = "compute_priors" THEN Unbound
                              ELSE [bound |-> TRUE, table |-> upl]
              /\ n_adjusted' = IF fp \in {"none", "save_log", "copy_log"} THEN n ELSE -1
              /\ shutil_bound' = (n > 0 /\ fp \in {"none", "copy_log"})
              /\ files' = files
                    \cup (IF fp \in {"compute_priors", "save_priors"} THEN {}
                          ELSE {"spike_uplift_priors"})
                    \cup (IF n > 0 /\ fp \in {"none", "copy_log"}
                          THEN {"spike_uplift_log_slug"} ELSE {})
                    \cup (IF n > 0 /\ fp = "none" THEN {"spike_uplift_log"} ELSE {})
              /\ spike_fail' = fp
              /\ steps' = LogStep("spike_uplift", df_forecast, out)
    /\ pc' = PcAfter("spike")
    /\ UNCHANGED <<config, df_hours, df_sales, model_preds, weights, calibration_mode_used,
                   outcome, blend, guard_in, calib_fail, overrides, run_log, funVars>>

\* df_forecast = apply_guardrails(df_forecast, df_hours_2026), before calibration
GuardrailsPre ==
    /\ pc = "guard1"
    /\ guard_in' = df_forecast
    /\ df_forecast' = ApplyGuardrails(df_forecast, df_hours)
    /\ steps' = LogStep("guardrails", df_forecast, df_forecast')
    /\ pc' = PcAfter("guard1")
    /\ UNCHANGED <<config, df_hours, df_sales, model_preds, weights, df_uplift, n_adjusted,
                   shutil_bound, calibration_mode_used, files, outcome, blend,
                   spike_fail, calib_fail, overrides, run_log, funVars>>

\* The flags of the fallback list that are flag columns of the model.
FallbackExcludedFlags == {"is_black_friday", "is_year_end_week", "is_day_after_christmas"}

\* excluded_spike_flags: the flags of the priors when df_uplift is bound.
ExcludedSpikeFlags ==
    IF df_uplift.bound
    THEN {df_uplift.table[i].spike_flag : i \in 1..Len(df_uplift.table)}
    ELSE FallbackExcludedFlags

\* The operations of the growth-calibration try block that may raise.
CalibFailPoints == {"none", "apply", "save_log", "copy_log", "summary"}

\* The growth-calibration block (the history is never empty here).
GrowthCalibration ==
    /\ pc = "calib"
    /\ LET g == config.growth_calibration
       IN  IF ~g.enabled
           THEN /\ calibration_mode_used' = "none"
                /\ calib_fail' = "none"
                /\ steps' = LogStep("growth_calibration", df_forecast, df_forecast)
                /\ UNCHANGED <<df_forecast, shutil_bound, files>>
           ELSE \E fp \in CalibFailPoints :
                  LET res == ApplyGrowthCalibration(df_forecast, df_sales, g.target_yoy_rate,
                                 ExcludedSpikeFlags, g.mode, g.min_scale, g.max_scale)
                      no_result == res.raised \/ fp = "apply"
                      out == IF no_result THEN df_forecast ELSE res.df
                  IN  /\ res.raised => fp = "apply"
                      /\ calibration_mode_used' = g.mode
                      /\ df_forecast' = out
                      /\ shutil_bound' = (shutil_bound \/ (~no_result /\ fp # "save_log"))
                      /\ files' = files
                            \cup (IF ~no_result /\ fp # "save_log"
                                  THEN {"growth_calibration_log_slug"} ELSE {})
                            \cup (IF fp \in {"none", "summary"}
                                  THEN {"growth_calibration_log"} ELSE {})
                            \cup (IF fp = "none"
                                  THEN {"monthly_calibration_scales_slug",
                                        "monthly_calibration_scales"} ELSE {})
                      /\ calib_fail' = fp
                      /\ steps' = LogStep("growth_calibration", df_forecast, out)
    /\ pc' = PcAfter("calib")
    /\ UNCHANGED <<config, df_hours, df_sales, model_preds, weights, df_uplift, n_adjusted,
                   outcome, blend, guard_in, spike_fail, overrides, run_log, funVars>>

\* df_forecast = apply_overrides(df_forecast)
Overrides ==
    /\ pc = "overrides"
    /\ \E ovr \in OverrideFiles :
          /\ overrides' = ovr
          /\ df_forecast' = ApplyOverrides(df_forecast, ovr)
    /\ steps' = LogStep("overrides", df_forecast, df_forecast')
    /\ pc' = PcAfter("overrides")
    /\ UNCHANGED <<config, df_hours, df_sales, model_preds, weights, df_uplift, n_adjusted,
                   shutil_bound, calibration_mode_used, files, outcome, blend, guard_in,
                   spike_fail, calib_fail, run_log, funVars>>

\* df_forecast = apply_guardrails(df_forecast, df_hours_2026), after overrides
GuardrailsPost ==
    /\ pc = "guard2"
    /\ df_forecast' = ApplyGuardrails(df_forecast, df_hours)
    /\ steps' = LogStep("guardrails", df_forecast, df_forecast')
    /\ pc' = PcAfter("guard2")
    /\ UNCHANGED <<config, df_hours, df_sales, model_preds, weights, df_uplift, n_adjusted,
                   shutil_bound, calibration_mode_used, files, outcome, blend, guard_in,
                   spike_fail, calib_fail, overrides, run_log, funVars>>

\* The final column selection: ds, p50, p80, p90, is_closed (and the metadata
\* columns open_minutes and data_through).
SelectColumns(df) ==
    Frame({"is_closed"}, {},
          [d \in DOMAIN df.rows |->
              [Row(<<0, 0, 0>>, df.rows[d].is_closed) EXCEPT
                  !.p50 = df.rows[d].p50, !.p80 = df.rows[d].p80, !.p90 = df.rows[d].p90]])

\* Metadata merge, sort, column selection and the write of the daily forecast.
Finalize ==
    /\ pc = "finalize"
    /\ df_forecast' = SelectColumns(df_forecast)
    /\ files' = files \cup {"forecast_daily"}
    /\ steps' = LogStep("write_daily", df_forecast, df_forecast')
    /\ pc' = PcAfter("finalize")
    /\ UNCHANGED <<config, df_hours, df_sales, model_preds, weights, df_uplift, n_adjusted,
                   shutil_bound, calibration_mode_used, outcome, blend, guard_in,
                   spike_fail, calib_fail, overrides, run_log, funVars>>

\* The run metadata record and its stable copy.  shutil is a local name of
\* generate_forecast, bound only by the import statements inside the two try
\* blocks: shutil.copy2 raises UnboundLocalError when neither was reached.
WriteRunLog ==
    /\ pc = "run_log"
    /\ run_log' = [written |-> TRUE,
                   spike_days_adjusted |-> IF n_adjusted >= 0 THEN n_adjusted ELSE 0,
                   calibration_mode |-> calibration_mode_used]
    /\ IF shutil_bound
       THEN /\ files' = files \cup {"run_log_slug", "run_log"}
            /\ pc' = PcAfter("run_log")
            /\ outcome' = outcome
       ELSE /\ files' = files \cup {"run_log_slug"}
            /\ pc' = "done"
            /\ outcome' = "raised"
    /\ steps' = LogStep("run_log", df_forecast, df_forecast)
    /\ UNCHANGED <<config, df_hours, df_sales, model_preds, weights, df_forecast, df_uplift,
                   n_adjusted, shutil_bound, calibration_mode_used, blend, guard_in,
                   spike_fail, calib_fail, overrides, funVars>>

\* The two rollup tables, then return df_forecast.
Rollups ==
    /\ pc = "rollups"
    /\ files' = files \cup {"rollups_ordering", "rollups_scheduling"}
    /\ outcome' = "returned"
    /\ steps' = LogStep("rollups", df_forecast, df_forecast)
    /\ pc' = PcAfter("rollups")
    /\ UNCHANGED <<config, df_hours, df_sales, model_preds, weights, df_forecast, df_uplift,
                   n_adjusted, shutil_bound, calibration_mode_used, blend, guard_in,
                   spike_fail, calib_fail, overrides, run_log, funVars>>

Init == PipeInit /\ call = [fn |-> "generate_forecast"] /\ ret = [n |-> 0]

Next ==
    \/ Blend
    \/ SpikeUplift
    \/ GuardrailsPre
    \/ GrowthCalibration
    \/ Overrides
    \/ GuardrailsPost
    \/ Finalize
    \/ WriteRunLog
    \/ Rollups

Spec == Init /\ [][Next]_vars

-----------------------------------------------------------------------------
(* Single calls of the component functions.  call holds the arguments,     *)
(* ret the result; ret.n counts the applications made so far.              *)

\* The orchestrator's variables while no run of generate_forecast is modelled.
IdlePipe ==
    /\ pc = "idle"
    /\ config = [spike_uplift |-> SpikeConfig, growth_calibration |-> GrowthConfig(FALSE, "monthly")]
    /\ df_hours = <<>>
    /\ df_sales = HistoryFlat
    /\ model_preds = <<>>
    /\ weights = <<>>
    /\ df_forecast = EmptyFrame
    /\ df_uplift = Unbound
    /\ n_adjusted = -1
    /\ shutil_bound = FALSE
    /\ calibration_mode_used = "none"
    /\ files = {}
    /\ outcome = "running"
    /\ steps = <<>>
    /\ blend = EmptyFrame
    /\ guard_in = EmptyFrame
    /\ spike_fail = "none"
    /\ calib_fail = "none"
    /\ overrides = NoOverrideFile
    /\ run_log = NoRunLog

\* ---- apply_guardrails(df, df_hours) ----

\* Largest integer quantile of the frames given to apply_guardrails.
MaxQ == 2
\* Number of successive applications of apply_guardrails.
MaxApply == 3

GuardDates == {<<2026, 11, 27>>, <<2026, 11, 30>>}

\* Frames with any quantiles in -1..MaxQ on the first date and a crossed row
\* on the second; with or without an is_closed column of their own.
GuardFrames ==
    {Frame(cols, {}, (<<2026, 11, 27>> :> Row(q, c)) @@ (<<2026, 11, 30>> :> Row(<<2, 1, 0>>, c2))) :
        cols \in {{"is_closed"}}, q \in (-1..MaxQ) \X (-1..MaxQ) \X (-1..MaxQ),
        c \in {"T", "F", "NA"}, c2 \in {"F"}}
    \cup {Frame({}, {}, (<<2026, 11, 27>> :> Row(q, "NA")) @@ (<<2026, 11, 30>> :> Row(<<2, 1, 0>>, "NA"))) :
        q \in (-1..MaxQ) \X (-1..MaxQ) \X (-1..MaxQ)}

\* Calendars with at most one row per date.
GuardCalendars == UNION {[S -> {"T", "F"}] : S \in SUBSET GuardDates}

InitGuard ==
    /\ IdlePipe
    /\ call \in [fn : {"apply_guardrails"}, df : GuardFrames, df_hours : GuardCalendars]
    /\ ret = [n |-> 0]

\* ret = apply_guardrails(df, df_hours)
GuardApply ==
    /\ call.fn = "apply_guardrails" /\ ret.n = 0
    /\ ret' = [n |-> 1, first |-> ApplyGuardrails(call.df, call.df_hours),
                        last |-> ApplyGuardrails(call.df, call.df_hours)]
    /\ UNCHANGED <<pipeVars, call>>

\* ret = apply_guardrails(ret, df_hours)
GuardReapply ==
    /\ call.fn = "apply_guardrails" /\ ret.n >= 1 /\ ret.n < MaxApply
    /\ ret' = [ret EXCEPT !.n = @ + 1, !.last = ApplyGuardrails(ret.last, call.df_hours)]
    /\ UNCHANGED <<pipeVars, call>>

NextGuard == GuardApply \/ GuardReapply

SpecGuard == InitGuard /\ [][NextGuard]_vars

\* ---- apply_spike_uplift_overlay(df_forecast, df_uplift) ----

\* The multipliers of the priors tables are k/2 for k in 1..MaxMult.
MaxMult == 3

OverlayMultipliers == {Rat(k, 2) : k \in 1..MaxMult}

\* Which flags have a prior, and with which multiplier.
OverlayPriorMaps ==
    UNION {[S -> OverlayMultipliers] : S \in SUBSET SpikeFlagColumns}

RECURSIVE PriorsTable(_, _)
\* The priors table of a map, its rows in the order of the spike_flags list.
PriorsTable(m, flags) ==
    IF flags = <<>> THEN <<>>
    ELSE (IF Head(flags) \in DOMAIN m
          THEN <<[spike_flag |-> Head(flags), uplift_multiplier |-> m[Head(flags)]]>>
          ELSE <<>>) \o PriorsTable(m, Tail(flags))

\* Forecast frames with the spike flag columns (all of them, or all but
\* is_black_friday), one row per date, unique index.
OverlayFrames ==
    {[AddSpikeDayFeatures(Frame({}, {}, [d \in ForecastDates |-> Row(<<10, 12, 16>>, "NA")]))
         EXCEPT !.flagcols = fc] :
        fc \in {SpikeFlagColumns, SpikeFlagColumns \ {"is_black_friday"}}}

InitOverlay ==
    /\ IdlePipe
    /\ call \in [fn : {"apply_spike_uplift_overlay"}, df_forecast : OverlayFrames,
                  df_uplift : {PriorsTable(m, SpikeFlagOrder) : m \in OverlayPriorMaps}]
    /\ ret = [n |-> 0]

OverlayCall ==
    /\ call.fn = "apply_spike_uplift_overlay" /\ ret.n = 0
    /\ ret' = [n |-> 1, df |-> ApplySpikeUpliftOverlay(call.df_forecast, call.df_uplift)]
    /\ UNCHANGED <<pipeVars, call>>

NextOverlay == OverlayCall

SpecOverlay == InitOverlay /\ [][NextOverlay]_vars

\* ---- EnsembleModel.predict(model_predictions) ----

\* The weights of a bucket are k/MaxW for k in 0..MaxW (fit bounds every
\* weight to [0, 1]).
MaxW == 2

EnsWeightValues == {Rat(k, MaxW) : k \in 0..MaxW}

\* self.weights: the bucket "1-7" always has an entry, the bucket "15-30" never.
EnsWeights ==
    {("1-7" :> wb) : wb \in UNION {[S -> EnsWeightValues] : S \in (SUBSET ModelNames) \ {{}}}}

EnsDate == <<2026, 11, 27>>

EnsQuantiles ==
    ("seasonal_naive_weekly" :> <<10, 10, 10>>) @@ ("gbm_long" :> <<-4, 6, 8>>)
    @@ ("chronos2" :> <<9, 12, 14>>)

\* Predictions of any non-empty set of models for one target date, issued
\* 5 or 20 days before it.
EnsPredictions ==
    {[m \in S |-> (EnsDate :> [p50 |-> RInt(EnsQuantiles[m][1]), p80 |-> RInt(EnsQuantiles[m][2]),
                               p90 |-> RInt(EnsQuantiles[m][3]), horizon |-> h])] :
        S \in (SUBSET ModelNames) \ {{}}, h \in {5, 20}}

InitEns ==
    /\ IdlePipe
    /\ call \in [fn : {"predict"}, weights : EnsWeights, model_predictions : EnsPredictions]
    /\ ret = [n |-> 0]

EnsPredictCall ==
    /\ call.fn = "predict" /\ ret.n = 0
    /\ ret' = [n |-> 1,
               norm_w |-> [d \in TargetDates(call.model_predictions) |->
                              EffectiveWeights(call.weights, WeightModels(call.weights),
                                               call.model_predictions, d)],
               df |-> EnsemblePredict(call.weights, WeightModels(call.weights),
                                      call.model_predictions)]
    /\ UNCHANGED <<pipeVars, call>>

NextEns == EnsPredictCall

SpecEns == InitEns /\ [][NextEns]_vars

\* ---- apply_growth_calibration(df_forecast, df_hist, ...) ----

\* The scale limits are k/4 for k in 2..MaxScaleNum.
MaxScaleNum == 6

ScaleLimits == {Rat(k, 4) : k \in 2..MaxScaleNum}

\* The forecast as it leaves the guardrails: flag columns, is_closed, one
\* closed date or none.
CalibFrames ==
    {ApplyGuardrails(
        AddSpikeDayFeatures(Frame({}, {}, [d \in ForecastDates |-> Row(<<10, 12, 16>>, "NA")])),
        hrs) : hrs \in {(<<2026, 11, 30>> :> "T"), (<<2026, 11, 30>> :> "F")}}

InitCalib ==
    /\ IdlePipe
    /\ call \in [fn : {"apply_growth_calibration"}, df_forecast : CalibFrames,
                  df_hist : SalesHistories \cup {HistoryClosedNovember}, target_yoy_rate : {Rat(-1, 2), Rat(1, 10), RInt(2)},
                  excluded_spike_flags : {{}, FallbackExcludedFlags},
                  mode : {"annual", "monthly"},
                  min_scale : ScaleLimits, max_scale : ScaleLimits]
    /\ RLe(call.min_scale, call.max_scale)
    /\ ret = [n |-> 0]

CalibCall ==
    /\ call.fn = "apply_growth_calibration" /\ ret.n = 0
    /\ LET res == ApplyGrowthCalibration(call.df_forecast, call.df_hist, call.target_yoy_rate,
                                         call.excluded_spike_flags, call.mode,
                                         call.min_scale, call.max_scale)
       IN  ret' = [n |-> 1, df |-> res.df, log |-> res.log]
    /\ UNCHANGED <<pipeVars, call>>

NextCalib == CalibCall

SpecCalib == InitCalib /\ [][NextCalib]_vars

\* ---- generate_2026_forecast(config, ...) ----

\* The parameters of generate_forecast, in order.
GenerateForecastParams ==
    <<"config", "config_path", "config_hash", "sales_fact_path", "hours_2026_path",
      "events_2026_path", "hours_history_path", "events_history_path", "inf_short_path",
      "inf_long_path", "ensemble_weights_path", "output_daily_path", "output_ordering_path",
      "output_scheduling_path">>

\* The parameters of generate_2026_forecast, in order.
WrapperParams ==
    <<"config", "config_path", "config_hash", "hours_2026_path", "inference_short_path",
      "inference_long_path", "output_daily_path", "output_ordering_path",
      "output_scheduling_path">>

\* The keywords of the call generate_forecast(...) in the wrapper's body.
WrapperForwardedKeywords ==
    {"config", "config_path", "config_hash", "hours_2026_path", "inference_short_path",
     "inference_long_path", "output_daily_path", "output_ordering_path",
     "output_scheduling_path"}

SeqToSet(sq) == {sq[i] : i \in 1..Len(sq)}

\* Python binds a call's keywords to the callee's parameters; a keyword that
\* is not a parameter raises TypeError before the body runs.
BindKeywords(params, keywords) ==
    IF keywords \subseteq SeqToSet(params) THEN "bound" ELSE "TypeError"

\* Every argument of the wrapper: config is required, the others default to
\* None.
WrapperArguments ==
    {a \in [SeqToSet(WrapperParams) -> {"None", "given"}] : a["config"] = "given"}

InitWrapper ==
    /\ IdlePipe
    /\ call \in [fn : {"generate_2026_forecast"}, args : WrapperArguments]
    /\ ret = [n |-> 0]

\* return generate_forecast(config=config, ...)
WrapperCall ==
    /\ call.fn = "generate_2026_forecast" /\ ret.n = 0
    /\ ret' = [n |-> 1,
               raised |-> IF BindKeywords(GenerateForecastParams, WrapperForwardedKeywords) = "bound"
                          THEN "none" ELSE "TypeError",
               delegated |-> BindKeywords(GenerateForecastParams, WrapperForwardedKeywords) = "bound"]
    /\ UNCHANGED <<pipeVars, call>>

NextWrapper == WrapperCall

SpecWrapper == InitWrapper /\ [][NextWrapper]_vars

\* ---- EnsembleModel.fit(backtest_preds_paths, min_rows) ----

\* The out-of-fold rows of one bucket: a set of [model, key, ok], key standing
\* for (cutoff_date, target_date) and ok for a p50 that is not NaN.  A model
\* has at most one row per key; y is known for every key.
OofRow(m, k, ok) == [model |-> m, key |-> k, ok |-> ok]

FitKeys == {1, 2}

OofProfiles ==
    {{},
     {OofRow("seasonal_naive_weekly", k, TRUE) : k \in FitKeys},
     {OofRow(m, k, TRUE) : m \in {"seasonal_naive_weekly", "gbm_long"}, k \in FitKeys},
     {OofRow("seasonal_naive_weekly", k, TRUE) : k \in FitKeys} \cup {OofRow("gbm_long", 1, TRUE)},
     {OofRow("seasonal_naive_weekly", k, TRUE) : k \in FitKeys} \cup {OofRow("gbm_long", 1, FALSE)},
     {OofRow(m, k, TRUE) : m \in ModelNames, k \in FitKeys}}

\* df_all by bucket, with at least one row in all.
FitInputs ==
    {f \in [BucketNames -> OofProfiles] :
        /\ \E b \in BucketNames : f[b] # {}
        /\ f["31-90"] \in {{}, {OofRow(m, k, TRUE) : m \in ModelNames, k \in FitKeys}}
        /\ f["91-380"] = {}}

\* self.models = df_all["model_name"].unique()
FitRoster(df_all) == {r.model : r \in UNION {df_all[b] : b \in BucketNames}}

\* The model columns of the pivot table: the models with a p50 in the bucket.
PivotColumns(rows) == {r.model : r \in {x \in rows : x.ok}}

\* The rows of df_pivot after dropna(): the keys every column has a p50 for.
CompleteKeys(rows) ==
    {k \in {r.key : r \in {x \in rows : x.ok}} :
        \A m \in PivotColumns(rows) : OofRow(m, k, TRUE) \in rows}

\* {m: 1.0 / len(self.models) for m in self.models}
EqualWeights(models) == [m \in models |-> Rat(1, Cardinality(models))]

\* The fallback after a failed optimisation, dividing by the roster's size.
FailedFitWeightsOverRoster(models, bucket_models) ==
    [m \in models |-> IF m \in bucket_models THEN Rat(1, Cardinality(models)) ELSE RZero]

\* {m: 1.0 / len(bucket_models) if m in bucket_models else 0.0 for m in self.models}
FailedFitWeights(models, bucket_models) ==
    [m \in models |-> IF m \in bucket_models THEN Rat(1, Cardinality(bucket_models)) ELSE RZero]

\* The results minimize() may give for bucket_models: failure, or a point that
\* satisfies the bounds [0, 1] and the constraint sum = 1.
SolverResults(bucket_models) ==
    {[success |-> FALSE, x |-> [m \in bucket_models |-> RZero]]}
    \cup {[success |-> TRUE, x |-> x] :
            x \in {w \in [bucket_models -> {RZero, Rat(1, 2), ROne}] :
                      RSum(w, bucket_models) = ROne}}

\* The pass with the previous bucket's weights also when too few complete
\* rows remain after dropna().
FitBucketWeightsInheritAfterDropna(self_weights, models, i, rows, min_rows, res) ==
    IF Cardinality(rows) < min_rows \/ Cardinality(CompleteKeys(rows)) < min_rows
    THEN IF i = 1 THEN EqualWeights(models)
         ELSE IF Buckets[i - 1] \in DOMAIN self_weights THEN self_weights[Buckets[i - 1]]
         ELSE EqualWeights(models)
    ELSE LET bucket_models == models \cap PivotColumns(rows)
         IN  IF bucket_models = {} THEN EqualWeights(models)
             ELSE IF res.success
             THEN [m \in models |-> IF m \in bucket_models THEN res.x[m] ELSE RZero]
             ELSE FailedFitWeights(models, bucket_models)

\* self.weights[bucket] for one pass of the loop over buckets; res is the
\* solver's result, used when the optimisation is reached.
FitBucketWeights(self_weights, models, i, rows, min_rows, res) ==
    IF Cardinality(rows) < min_rows
    THEN IF i = 1 THEN EqualWeights(models)
         ELSE IF Buckets[i - 1] \in DOMAIN self_weights THEN self_weights[Buckets[i - 1]]
         ELSE EqualWeights(models)
    ELSE IF Cardinality(CompleteKeys(rows)) < min_rows THEN EqualWeights(models)
    ELSE LET bucket_models == models \cap PivotColumns(rows)
         IN  IF bucket_models = {} THEN EqualWeights(models)
             ELSE IF res.success
             THEN [m \in models |-> IF m \in bucket_models THEN res.x[m] ELSE RZero]
             ELSE FailedFitWeights(models, bucket_models)

\* Whether the pass for these rows reaches minimize().
ReachesSolver(models, rows, min_rows) ==
    /\ Cardinality(rows) >= min_rows
    /\ Cardinality(CompleteKeys(rows)) >= min_rows
    /\ models \cap PivotColumns(rows) # {}

InitFit ==
    /\ IdlePipe
    /\ call \in [fn : {"fit"}, df_all : FitInputs, min_rows : {1, 2}]
    /\ ret = [n |-> 0, weights |-> <<>>, solved |-> {}]

\* One pass of "for bucket in buckets".
FitBucket ==
    /\ call.fn = "fit" /\ ret.n < Len(Buckets)
    /\ LET i == ret.n + 1
           rows == call.df_all[Buckets[i]]
           models == FitRoster(call.df_all)
           reaches == ReachesSolver(models, rows, call.min_rows)
       IN  \E res \in (IF reaches THEN SolverResults(models \cap PivotColumns(rows))
                       ELSE {[success |-> FALSE, x |-> <<>>]}) :
               ret' = [n |-> i,
                       weights |-> (Buckets[i] :> FitBucketWeights(ret.weights, models, i, rows,
                                                                   call.min_rows, res))
                                   @@ ret.weights,
                       solved |-> IF reaches /\ res.success THEN ret.solved \cup {Buckets[i]}
                                  ELSE ret.solved]
    /\ UNCHANGED <<pipeVars, call>>

NextFit == FitBucket

SpecFit == InitFit /\ [][NextFit]_vars

\* ---- run_baseline_backtest(min_train_days, step_days, max_horizon) ----
\* Two sales histories are backtested side by side; all their dates lie in
\* November 2026, so that a date plus or minus some days is the same month
\* with another day number.

AddDays(d, k) == <<d[1], d[2], d[3] + k>>

\* Timedelta.days of a - b.
DaysBetween(a, b) == DayNumber(a) - DayNumber(b)

\* Last day of the backtested histories.
BtLastDay == 23

\* Sales of day d of the month; `late` is added from day 12 on.
BtSales(d, late) == 10 + 2 * (d % 4) + (IF d >= 12 THEN late ELSE 0)

\* The days a history may lack (rows dropped by the ingestion).
BtGapDays == {5, 9, 16}

\* A history with one row per date, from the 1st to day BtLastDay, without
\* the days of `gaps`; day 3 is closed.
BtHistory(gaps, late) ==
    [cols |-> {"is_closed"},
     rows |-> [a \in {<<2026, 11, d>> : d \in (1..BtLastDay) \ gaps} |->
                  IF a[3] = 3 THEN SalesRow(0, TRUE) ELSE SalesRow(BtSales(a[3], late), FALSE)]]

BtHistories == {BtHistory(gaps, late) : gaps \in SUBSET BtGapDays, late \in {0, 5}}

\* df_sales["ds"].min()
MinDate(hist) == CHOOSE a \in DOMAIN hist.rows : \A b \in DOMAIN hist.rows : DateLe(a, b)

\* df_train = df_sales[df_sales["ds"] <= cutoff_date]
TrainRows(hist, cutoff_date) ==
    [hist EXCEPT !.rows = [a \in {b \in DOMAIN hist.rows : DateLe(b, cutoff_date)} |-> hist.rows[a]]]

\* pd.date_range(first_cutoff, ds_max - 14 days, freq = step_days)
CutoffDates(hist, min_train_days, step_days) ==
    LET first_cutoff == AddDays(MinDate(hist), min_train_days)
        span == DaysBetween(AddDays(MaxDate(hist), -14), first_cutoff)
    IN  IF span < 0 THEN <<>>
        ELSE [i \in 1..(span \div step_days + 1) |-> AddDays(first_cutoff, (i - 1) * step_days)]

\* h_eval = min(max_horizon, (ds_max - cutoff_date).days)
EvalHorizon(hist, cutoff_date, max_horizon) ==
    LET remaining == DaysBetween(MaxDate(hist), cutoff_date)
    IN  IF max_horizon < remaining THEN max_horizon ELSE remaining

RECURSIVE SortDates(_)
SortDates(S) ==
    IF S = {} THEN <<>>
    ELSE LET a == CHOOSE x \in S : \A z \in S : DateLe(x, z)
         IN  <<a>> \o SortDates(S \ {a})

\* The target dates of a cutoff, ascending: the days after the cutoff up to
\* the horizon that have a row in the sales history.
BtTargetDates(hist, cutoff_date, max_horizon) ==
    SortDates({a \in DOMAIN hist.rows :
                  /\ DaysBetween(a, cutoff_date) >= 1
                  /\ DaysBetween(a, cutoff_date) <= EvalHorizon(hist, cutoff_date, max_horizon)})

\* Series.mean() of y over the open days of the history (there is one).
MeanOpenY(hist) ==
    RDiv(SalesTotal(hist, OpenDays(hist)), RInt(Cardinality(OpenDays(hist))))

RECURSIVE SeasonalNaivePredict(_, _, _)
\* SeasonalNaiveWeekly.predict: the value of 7 days before from the history,
\* else from the forecasts made so far, else the mean of the open days.
SeasonalNaivePredict(history, target_dates, forecasts) ==
    IF target_dates = <<>> THEN forecasts
    ELSE LET target_date == Head(target_dates)
             lag_date == AddDays(target_date, -7)
             p50 == IF lag_date \in DOMAIN history.rows THEN RInt(history.rows[lag_date].y)
                    ELSE IF lag_date \in DOMAIN forecasts THEN forecasts[lag_date]
                    ELSE MeanOpenY(history)
         IN  SeasonalNaivePredict(history, Tail(target_dates),
                                  (target_date :> p50) @@ forecasts)

\* WeekdayRollingMedian(n_weeks = 8)
NWeeks == 8

\* WeekdayRollingMedian.predict for one date: the median of the last n_weeks
\* open days of the same weekday, else of all open days.
WeekdayMedianPredict(history, target_date) ==
    LET same_dow == {a \in OpenDays(history) : DayOfWeek(a) = DayOfWeek(target_date)}
        recent == {a \in same_dow :
                      Cardinality({b \in same_dow : b # a /\ DateLe(a, b)}) < NWeeks}
    IN  IF same_dow # {} THEN MedianY(history, recent)
        ELSE MedianY(history, OpenDays(history))

\* The out-of-fold rows of one cutoff.
BacktestRows(hist, cutoff_date, max_horizon) ==
    LET df_train == TrainRows(hist, cutoff_date)
        target_dates == BtTargetDates(hist, cutoff_date, max_horizon)
        preds_sn == SeasonalNaivePredict(df_train, target_dates, <<>>)
    IN  IF EvalHorizon(hist, cutoff_date, max_horizon) < 1 THEN {}
        ELSE {[model_name |-> "seasonal_naive_weekly", cutoff_date |-> cutoff_date,
               target_date |-> t, p50 |-> preds_sn[t], p80 |-> preds_sn[t],
               p90 |-> preds_sn[t], horizon |-> DaysBetween(t, cutoff_date)] :
                 t \in DOMAIN preds_sn}
             \cup
             {LET p50 == WeekdayMedianPredict(df_train, t)
              IN  [model_name |-> "weekday_rolling_median", cutoff_date |-> cutoff_date,
                   target_date |-> t, p50 |-> p50, p80 |-> p50, p90 |-> p50,
                   horizon |-> DaysBetween(t, cutoff_date)] :
                 t \in DOMAIN preds_sn}

InitBacktest ==
    /\ IdlePipe
    /\ call \in [fn : {"run_baseline_backtest"}, df_sales : BtHistories, other : BtHistories,
                  min_train_days : {1, 7}, step_days : {7, 14}, max_horizon : {10, 380}]
    /\ ret = [n |-> 0, preds |-> {}, other |-> {}]

\* One pass of "for cutoff_date in cutoff_dates", on both histories.
BacktestCutoff ==
    /\ call.fn = "run_baseline_backtest"
    /\ ret.n < Len(CutoffDates(call.df_sales, call.min_train_days, call.step_days))
    /\ LET cutoff_date == CutoffDates(call.df_sales, call.min_train_days, call.step_days)[ret.n + 1]
       IN  ret' = [n |-> ret.n + 1,
                   preds |-> ret.preds \cup BacktestRows(call.df_sales, cutoff_date, call.max_horizon),
                   other |-> ret.other \cup BacktestRows(call.other, cutoff_date, call.max_horizon)]
    /\ UNCHANGED <<pipeVars, call>>

NextBacktest == BacktestCutoff

SpecBacktest == InitBacktest /\ [][NextBacktest]_vars

\* ---- EnsembleModel.save, then the loading code of generate_forecast ----
\* The weights are binary floating-point numbers.  They are modelled with a
\* mantissa of FloatBits bits instead of 53; the decimal text of a float is
\* the shortest one that identifies it (repr, used by to_csv), at most
\* FloatDigits significant digits instead of 17; read_csv parses the text
\* with its default converter, which keeps ParserMaxDigits digits, counted
\* from the first digit of the text (17 for the doubles).

FloatBits == 3
FloatDigits == 2
ParserMaxDigits == 2

RECURSIVE Pow(_, _)
Pow(b, n) == IF n = 0 THEN 1 ELSE b * Pow(b, n - 1)

\* The non-zero floats <<m, e>> = m * 2^e, with the mantissa normalised.
FloatPairs ==
    {<<m, e>> : m \in Pow(2, FloatBits - 1)..(Pow(2, FloatBits) - 1), e \in (-6)..2}

FloatValue(f) ==
    IF f[2] >= 0 THEN RInt(f[1] * Pow(2, f[2])) ELSE Rat(f[1], Pow(2, -f[2]))

RAbsDiff(a, b) == IF RLt(a, b) THEN RSub(b, a) ELSE RSub(a, b)

\* The float nearest to x >= 0, ties to the even mantissa.
RoundF(x) ==
    LET best == CHOOSE f \in FloatPairs :
                    \A g \in FloatPairs :
                        \/ RLt(RAbsDiff(x, FloatValue(f)), RAbsDiff(x, FloatValue(g)))
                        \/ /\ RAbsDiff(x, FloatValue(f)) = RAbsDiff(x, FloatValue(g))
                           /\ (f[1] % 2 = 0 \/ g = f)
    IN  IF RLe(RMul(RInt(2), x), FloatValue(<<Pow(2, FloatBits - 1), -6>>)) THEN RZero
        ELSE FloatValue(best)

\* A decimal text "w.ddd": one digit before the point, the digits after it.
DecimalTexts ==
    {[whole |-> w, frac |-> d] : w \in 0..1,
        d \in UNION {[1..n -> 0..9] : n \in 1..FloatDigits}}

RECURSIVE FracValue(_, _)
FracValue(d, n) ==
    IF n = 0 THEN RZero ELSE RAdd(FracValue(d, n - 1), Rat(d[n], Pow(10, n)))

TextValue(t) == RAdd(RInt(t.whole), FracValue(t.frac, Len(t.frac)))

\* repr(weight), as to_csv writes it: the shortest text that a correctly
\* rounding reader maps back to the float, and the nearest of these.
FloatRepr(x) ==
    LET ok == {t \in DecimalTexts : RoundF(TextValue(t)) = x}
        short == {t \in ok : \A u \in ok : Len(t.frac) <= Len(u.frac)}
    IN  CHOOSE t \in short :
            \A u \in short : RLe(RAbsDiff(TextValue(t), x), RAbsDiff(TextValue(u), x))

RECURSIVE ParseDigits(_, _, _)
\* number = number * 10. + digit, for the digits that are kept.
ParseDigits(number, d, n) ==
    IF n = 0 THEN number
    ELSE RoundF(RAdd(RMul(ParseDigits(number, d, n - 1), RInt(10)), RInt(d[n])))

\* The default float converter of read_csv on the text of a weight.
ParseFloat(t) ==
    LET kept == IF Len(t.frac) < ParserMaxDigits - 1 THEN Len(t.frac) ELSE ParserMaxDigits - 1
        number == ParseDigits(RoundF(RInt(t.whole)), t.frac, kept)
    IN  RoundF(RDiv(number, RoundF(RInt(Pow(10, kept)))))

\* The buckets and models of the saved mappings.
SavedBuckets == <<"1-7", "8-14">>
SavedModels == <<"seasonal_naive_weekly", "gbm_short">>

\* The weights of one bucket that the solver can return for two models.
SolverWeightValues == {Rat(k, 8) : k \in 0..8}

SolverWeights ==
    {[m \in SeqToSet(SavedModels) |->
         IF m = SavedModels[1] THEN w ELSE RSub(RInt(1), w)] : w \in SolverWeightValues}

\* The text of each weight, and the float read from each text.
WeightText == [w \in SolverWeightValues |-> FloatRepr(w)]
ParsedWeight == [t \in {WeightText[w] : w \in SolverWeightValues} |-> ParseFloat(t)]

FittedWeights == [SeqToSet(SavedBuckets) -> SolverWeights]

\* save: one row per bucket and model, in the order of the dictionaries.
SaveRows(w) ==
    [i \in 1..(Len(SavedBuckets) * Len(SavedModels)) |->
        LET b == SavedBuckets[((i - 1) \div Len(SavedModels)) + 1]
            m == SavedModels[((i - 1) % Len(SavedModels)) + 1]
        IN  [horizon_bucket |-> b, model_name |-> m, weight |-> WeightText[w[b][m]]]]

\* ensemble.weights as generate_forecast rebuilds it from the rows.
LoadWeights(rows) ==
    [b \in {rows[i].horizon_bucket : i \in DOMAIN rows} |->
        [m \in {rows[i].model_name : i \in {j \in DOMAIN rows : rows[j].horizon_bucket = b}} |->
            LET i == CHOOSE j \in DOMAIN rows :
                        /\ rows[j].horizon_bucket = b /\ rows[j].model_name = m
                        /\ \A k \in DOMAIN rows :
                              (rows[k].horizon_bucket = b /\ rows[k].model_name = m) => k <= j
            IN  ParsedWeight[rows[i].weight]]]

InitRoundTrip ==
    /\ IdlePipe
    /\ call \in [fn : {"save"}, weights : FittedWeights]
    /\ ret = [n |-> 0, csv |-> <<>>, weights |-> <<>>]

Save ==
    /\ call.fn = "save"
    /\ ret.n = 0
    /\ ret' = [ret EXCEPT !.n = 1, !.csv = SaveRows(call.weights)]
    /\ UNCHANGED <<pipeVars, call>>

LoadEnsembleWeights ==
    /\ call.fn = "save"
    /\ ret.n = 1
    /\ ret' = [ret EXCEPT !.n = 2, !.weights = LoadWeights(ret.csv)]
    /\ UNCHANGED <<pipeVars, call>>

NextRoundTrip == Save \/ LoadEnsembleWeights

SpecRoundTrip == InitRoundTrip /\ [][NextRoundTrip]_vars

\* ---- apply_growth_calibration in monthly mode, twice ----
\* The second call gets the forecast returned by the first one, with the
\* same history, rate, exclusion flags and limits.

InitRecalib ==
    /\ IdlePipe
    /\ call \in [fn : {"recalibrate"}, df_forecast : CalibFrames,
                  df_hist : SalesHistories \cup {HistoryClosedNovember},
                  target_yoy_rate : {Rat(-1, 2), Rat(1, 10), RInt(2)},
                  excluded_spike_flags : {{}, FallbackExcludedFlags},
                  mode : {"monthly"},
                  min_scale : ScaleLimits, max_scale : ScaleLimits]
    /\ RLe(call.min_scale, call.max_scale)
    /\ ret = [n |-> 0]

RecalibFirst ==
    /\ call.fn = "recalibrate" /\ ret.n = 0
    /\ LET res == ApplyGrowthCalibration(call.df_forecast, call.df_hist, call.target_yoy_rate,
                                         call.excluded_spike_flags, call.mode,
                                         call.min_scale, call.max_scale)
       IN  ret' = [n |-> 1, df |-> res.df, log |-> res.log]
    /\ UNCHANGED <<pipeVars, call>>

RecalibSecond ==
    /\ call.fn = "recalibrate" /\ ret.n = 1
    /\ LET res == ApplyGrowthCalibration(ret.df, call.df_hist, call.target_yoy_rate,
                                         call.excluded_spike_flags, call.mode,
                                         call.min_scale, call.max_scale)
       IN  ret' = [n |-> 2, df |-> res.df, log |-> res.log, first |-> ret.df]
    /\ UNCHANGED <<pipeVars, call>>

NextRecalib == RecalibFirst \/ RecalibSecond

SpecRecalib == InitRecalib /\ [][NextRecalib]_vars

\* ---- compute_spike_uplift_priors(df_sales, min_observations, ...) ----
\* The histories are days of 2025 with the flags of add_spike_day_features:
\* Fridays of October and November, the Wednesday before Thanksgiving,
\* Thanksgiving (closed), Black Friday and the days of the year-end week.

OctoberFridays == <<<<2025, 10, 3>>, <<2025, 10, 10>>, <<2025, 10, 17>>>>
NovemberFridays == <<<<2025, 11, 7>>, <<2025, 11, 14>>, <<2025, 11, 21>>>>
YearEndDays == <<<<2025, 12, 26>>, <<2025, 12, 27>>, <<2025, 12, 28>>,
                 <<2025, 12, 29>>, <<2025, 12, 30>>, <<2025, 12, 31>>>>

FirstOf(sq, k) == {sq[i] : i \in 1..k}

\* The sales of an open day other than Black Friday.
PriorSales(a) ==
    IF a[2] = 12 THEN 20 + (a[3] % 3) ELSE IF a[2] = 10 THEN 13 ELSE 10 + (a[3] % 7)

\* A history with ko October Fridays, kn November Fridays, ky days of the
\* year-end week, Black Friday with sales bf (absent when 0), the Wednesday
\* when wed, and Thanksgiving closed unless the history is otherwise empty.
PriorsHistory(ko, kn, ky, bf, wed) ==
    LET open == FirstOf(OctoberFridays, ko) \cup FirstOf(NovemberFridays, kn)
                \cup FirstOf(YearEndDays, ky)
                \cup (IF wed THEN {<<2025, 11, 26>>} ELSE {})
        black == IF bf > 0 THEN {<<2025, 11, 28>>} ELSE {}
    IN  [cols |-> {"is_closed"},
         rows |-> [a \in open \cup black \cup {<<2025, 11, 27>>} |->
                      IF a = <<2025, 11, 27>> THEN SalesRow(0, TRUE)
                      ELSE IF a \in black THEN SalesRow(bf, FALSE)
                      ELSE SalesRow(PriorSales(a), FALSE)]]

PriorsHistories ==
    {PriorsHistory(ko, kn, ky, bf, wed) :
        ko \in 0..3, kn \in 0..3, ky \in 0..6, bf \in {0, 10, 30}, wed \in BOOLEAN}

InitPriors ==
    /\ IdlePipe
    /\ call \in [fn : {"compute_spike_uplift_priors"}, df_sales : PriorsHistories,
                  min_observations : {1, 2}, shrinkage_factor : {Rat(1, 4), ROne},
                  max_multiplier : {Rat(9, 10), Rat(8, 5)}]
    /\ ret = [n |-> 0]

PriorsCall ==
    /\ call.fn = "compute_spike_uplift_priors" /\ ret.n = 0
    /\ ret' = [n |-> 1,
               table |-> ComputeSpikeUpliftPriors(call.df_sales, call.min_observations,
                                                  call.shrinkage_factor, call.max_multiplier)]
    /\ UNCHANGED <<pipeVars, call>>

NextPriors == PriorsCall

SpecPriors == InitPriors /\ [][NextPriors]_vars

\* ---- the three computations of the baseline year ----

\* The year before the latest one, whatever the latest date.
SelectBaselineYearAlwaysPrevious(df_hist) == MaxDate(df_hist)[1] - 1

\* _select_baseline_year of the export module.
SelectBaselineYear(df_hist) ==
    LET max_date == MaxDate(df_hist)
        max_year == max_date[1]
    IN  IF max_date[2] = 12 /\ max_date[3] = 31 THEN max_year ELSE max_year - 1

\* _baseline_year_from_sales of the event-uplift module, for a history with
\* a 'ds' column and a valid date.
BaselineYearFromSales(df_sales_in) ==
    LET max_date == MaxDate(df_sales_in)
    IN  IF max_date[2] = 12 /\ max_date[3] = 31 THEN max_date[1] ELSE max_date[1] - 1

\* The dates a history is made of.
BaselineYearDates ==
    {<<2024, 12, 31>>, <<2025, 6, 30>>, <<2025, 12, 30>>, <<2025, 12, 31>>,
     <<2026, 1, 1>>, <<2026, 11, 20>>, <<2026, 12, 31>>}

BaselineYearHistories ==
    {[cols |-> {"is_closed"}, rows |-> [a \in S |-> SalesRow(10, FALSE)]] :
        S \in (SUBSET BaselineYearDates) \ {{}}}

\* The result of a computation that has not run yet.
NoYear == 0

InitBaselineYear ==
    /\ IdlePipe
    /\ call \in [fn : {"baseline_year"}, df_hist : BaselineYearHistories]
    /\ ret = [n |-> 0, calibration |-> NoYear, export |-> NoYear, event_uplift |-> NoYear]

CalibrationBaselineYear ==
    /\ call.fn = "baseline_year" /\ ret.calibration = NoYear
    /\ ret' = [ret EXCEPT !.n = @ + 1, !.calibration = BaselineYear(call.df_hist)]
    /\ UNCHANGED <<pipeVars, call>>

ExportBaselineYear ==
    /\ call.fn = "baseline_year" /\ ret.export = NoYear
    /\ ret' = [ret EXCEPT !.n = @ + 1, !.export = SelectBaselineYear(call.df_hist)]
    /\ UNCHANGED <<pipeVars, call>>

EventUpliftBaselineYear ==
    /\ call.fn = "baseline_year" /\ ret.event_uplift = NoYear
    /\ ret' = [ret EXCEPT !.n = @ + 1, !.event_uplift = BaselineYearFromSales(call.df_hist)]
    /\ UNCHANGED <<pipeVars, call>>

NextBaselineYear == CalibrationBaselineYear \/ ExportBaselineYear \/ EventUpliftBaselineYear

SpecBaselineYear == InitBaselineYear /\ [][NextBaselineYear]_vars

\* ---- run_pipeline, steps 8 and 9 ----
\* A backtest prediction file is missing, empty, holds rows of other models
\* only, or holds rows of the models requested from it.

BacktestFileStates == {"missing", "empty", "other_models", "rows"}

\* backtest_preds_paths: the file each requested model is read from.
BacktestPredsPaths ==
    [seasonal_naive_weekly |-> "preds_baselines", weekday_rolling_median |-> "preds_baselines",
     gbm_short |-> "preds_gbm_short", gbm_long |-> "preds_gbm_long"]

BacktestFileNames == {BacktestPredsPaths[m] : m \in DOMAIN BacktestPredsPaths}

\* available_preds: the requested models whose file exists.
AvailablePreds(backtest_files) ==
    {m \in DOMAIN BacktestPredsPaths : backtest_files[BacktestPredsPaths[m]] # "missing"}

\* all_preds of fit: the models of available_preds with at least one row.
FitAllPreds(backtest_files, available_preds) ==
    {m \in available_preds : backtest_files[BacktestPredsPaths[m]] = "rows"}

InitRunPipeline ==
    /\ IdlePipe
    /\ call \in [fn : {"run_pipeline"}, backtest_files : [BacktestFileNames -> BacktestFileStates]]
    /\ ret = [n |-> 0, pc |-> "check_available", exit_code |-> 0, fitted |-> {},
               weights_file |-> "absent", forecast_started |-> FALSE]

\* if len(available_preds) == 0: sys.exit(1)
CheckAvailablePreds ==
    /\ call.fn = "run_pipeline" /\ ret.pc = "check_available"
    /\ ret' = IF AvailablePreds(call.backtest_files) = {}
              THEN [ret EXCEPT !.n = @ + 1, !.pc = "exited", !.exit_code = 1]
              ELSE [ret EXCEPT !.n = @ + 1, !.pc = "fit"]
    /\ UNCHANGED <<pipeVars, call>>

\* ensemble.fit(available_preds): returns without weights when no row is left.
FitEnsemble ==
    /\ call.fn = "run_pipeline" /\ ret.pc = "fit"
    /\ ret' = [ret EXCEPT !.n = @ + 1, !.pc = "save",
                          !.fitted = FitAllPreds(call.backtest_files,
                                                 AvailablePreds(call.backtest_files))]
    /\ UNCHANGED <<pipeVars, call>>

\* ensemble.save(...): writes the rows of self.weights, none when fit
\* returned early.
SaveEnsemble ==
    /\ call.fn = "run_pipeline" /\ ret.pc = "save"
    /\ ret' = [ret EXCEPT !.n = @ + 1, !.pc = "forecast",
                          !.weights_file = IF ret.fitted = {} THEN "no_rows" ELSE "weights"]
    /\ UNCHANGED <<pipeVars, call>>

\* generate_2026_forecast(...): fails on a weights file without rows, and the
\* except clause of run_pipeline exits with 1.
GenerateForecastStep ==
    /\ call.fn = "run_pipeline" /\ ret.pc = "forecast"
    /\ ret' = IF ret.weights_file = "no_rows"
              THEN [ret EXCEPT !.n = @ + 1, !.pc = "exited", !.exit_code = 1,
                               !.forecast_started = TRUE]
              ELSE [ret EXCEPT !.n = @ + 1, !.pc = "complete", !.forecast_started = TRUE]
    /\ UNCHANGED <<pipeVars, call>>

NextRunPipeline == CheckAvailablePreds \/ FitEnsemble \/ SaveEnsemble \/ GenerateForecastStep

SpecRunPipeline == InitRunPipeline /\ [][NextRunPipeline]_vars

\* ---- the cutoff loop of run_baseline_backtest and run_gbm_long_backtest ----
\* The models are black boxes whose fit or predict may raise at a cutoff.

MaxCutoffs == 3

\* The models each sweep trains at a cutoff, in order.
SweepModels ==
    [run_baseline_backtest |-> <<"seasonal_naive_weekly", "weekday_rolling_median">>,
     run_gbm_long_backtest |-> <<"gbm_long">>]

SweepPairs(sweep) == (1..MaxCutoffs) \X SeqToSet(SweepModels[sweep])

InitSweep ==
    /\ IdlePipe
    /\ \E sweep \in DOMAIN SweepModels :
          call \in [fn : {sweep}, sweeping : {TRUE}, raising : SUBSET SweepPairs(sweep)]
    /\ ret = [n |-> 0, pc |-> "loop", all_preds |-> {}, written |-> {}]

\* One pass of "for cutoff_date in cutoff_dates": an exception of fit or
\* predict is not caught and leaves the function.
SweepCutoff ==
    /\ "sweeping" \in DOMAIN call /\ ret.pc = "loop" /\ ret.n < MaxCutoffs
    /\ LET cutoff == ret.n + 1
           models == SeqToSet(SweepModels[call.fn])
       IN  ret' = IF \E m \in models : <<cutoff, m>> \in call.raising
                  THEN [ret EXCEPT !.n = cutoff, !.pc = "raised"]
                  ELSE [ret EXCEPT !.n = cutoff,
                                   !.all_preds = @ \cup {<<cutoff, m>> : m \in models}]
    /\ UNCHANGED <<pipeVars, call>>

\* After the loop: df_preds.to_parquet(output_preds_path).
SweepWrite ==
    /\ "sweeping" \in DOMAIN call /\ ret.pc = "loop" /\ ret.n = MaxCutoffs
    /\ ret' = [ret EXCEPT !.pc = "written", !.written = ret.all_preds]
    /\ UNCHANGED <<pipeVars, call>>

NextSweep == SweepCutoff \/ SweepWrite

SpecSweep == InitSweep /\ [][NextSweep]_vars

\* ---- the rollup tables written at the end of generate_forecast ----

MaxRollupDays == 11

\* Forecast frames of December 2026: consecutive days from a start day, one
\* day possibly without a row, the quantiles whole numbers.
RollupFrame(start_day, ndays, gap, level) ==
    [d \in {<<2026, 12, k>> : k \in (start_day..(start_day + ndays - 1)) \ {gap}} |->
        [p50 |-> level + d[3], p80 |-> level + d[3] + (d[3] % 3), p90 |-> level + 2 * d[3]]]

RollupFrames ==
    {RollupFrame(start_day, ndays, gap, level) :
        start_day \in 1..7, ndays \in 1..MaxRollupDays, gap \in {0, 9}, level \in {0, 5}}
        \ {<<>>}

DateLt(a, b) == DateLe(a, b) /\ a # b

\* forecast_end = df_forecast_roll["ds"].max()
ForecastEnd(df) == CHOOSE a \in DOMAIN df : \A b \in DOMAIN df : DateLe(b, a)

RECURSIVE SumColumn(_, _, _)
\* df.loc[mask, col].sum()
SumColumn(df, mask, col) ==
    IF mask = {} THEN 0
    ELSE LET d == CHOOSE x \in mask : TRUE IN df[d][col] + SumColumn(df, mask \ {d}, col)

\* sum_window(start, end); notes is the list joined with ";".
SumWindow(df, start, end) ==
    LET forecast_end == ForecastEnd(df)
        end_capped == IF DateLe(end, forecast_end) THEN end ELSE forecast_end
        mask == {d \in DOMAIN df : DateLe(start, d) /\ DateLe(d, end_capped)}
    IN  [coverage_start |-> start,
         coverage_end |-> end_capped,
         p50 |-> SumColumn(df, mask, "p50"),
         p80 |-> SumColumn(df, mask, "p80"),
         p90 |-> SumColumn(df, mask, "p90"),
         notes |-> IF DateLt(end_capped, end) THEN <<"window_truncated_at_forecast_end">>
                   ELSE <<>>]

\* The rows of the frame whose ds.dt.dayofweek is dow, ascending.
WeekdayStarts(df, dow) == SortDates({d \in DOMAIN df : DayOfWeek(d) = dow})

\* for start in starts: row = sum_window(start, start + days); row["notes"] += note
WindowRows(df, starts, days, note) ==
    [i \in 1..Len(starts) |->
        LET row == SumWindow(df, starts[i], AddDays(starts[i], days))
        IN  [row EXCEPT !.notes = Append(@, note)]]

RECURSIVE SortByCoverageStart(_)
\* sort_values on coverage_start; no two rows of a table start on the same day.
SortByCoverageStart(rows) ==
    IF rows = {} THEN <<>>
    ELSE LET r == CHOOSE x \in rows : \A z \in rows : DateLe(x.coverage_start, z.coverage_start)
         IN  <<r>> \o SortByCoverageStart(rows \ {r})

\* The Wednesday order of seven days instead of eight.
OrderingRowsWedSevenDays(df) ==
    WindowRows(df, WeekdayStarts(df, 6), 6, "order_cycle=sun_sat")
        \o WindowRows(df, WeekdayStarts(df, 2), 6, "order_cycle=wed_wed")

OrderingRows(df) ==
    WindowRows(df, WeekdayStarts(df, 6), 6, "order_cycle=sun_sat")
        \o WindowRows(df, WeekdayStarts(df, 2), 7, "order_cycle=wed_wed")

SchedulingRows(df) == WindowRows(df, WeekdayStarts(df, 2), 6, "schedule_week=wed_tue")

InitRollups ==
    /\ IdlePipe
    /\ call \in [fn : {"rollups"}, df_forecast_roll : RollupFrames]
    /\ ret = [n |-> 0, pc |-> "ordering", df_ordering |-> <<>>, df_scheduling |-> <<>>,
              written |-> {}]

\* pd.DataFrame(ordering_rows).sort_values(...) raises KeyError on a frame
\* without rows (it has no columns); otherwise the table is written.
RollupOrdering ==
    /\ call.fn = "rollups" /\ ret.pc = "ordering"
    /\ LET ordering_rows == OrderingRows(call.df_forecast_roll)
       IN  ret' = IF ordering_rows = <<>> THEN [ret EXCEPT !.n = 1, !.pc = "raised"]
                  ELSE [ret EXCEPT !.n = 1, !.pc = "scheduling",
                                   !.df_ordering = SortByCoverageStart(SeqToSet(ordering_rows)),
                                   !.written = @ \cup {"rollups_ordering"}]
    /\ UNCHANGED <<pipeVars, call>>

RollupScheduling ==
    /\ call.fn = "rollups" /\ ret.pc = "scheduling"
    /\ LET scheduling_rows == SchedulingRows(call.df_forecast_roll)
       IN  ret' = IF scheduling_rows = <<>> THEN [ret EXCEPT !.n = 2, !.pc = "raised"]
                  ELSE [ret EXCEPT !.n = 2, !.pc = "returned",
                                   !.df_scheduling = SortByCoverageStart(SeqToSet(scheduling_rows)),
                                   !.written = @ \cup {"rollups_scheduling"}]
    /\ UNCHANGED <<pipeVars, call>>

NextRollups == RollupOrdering \/ RollupScheduling

SpecRollups == InitRollups /\ [][NextRollups]_vars

\* ---- generate_forecast under configurations that carry both `enabled` options ----

\* The spike_uplift section of the configuration with its `enabled` option.
SpikeConfigEnabled(enabled) ==
    [enabled |-> enabled, min_observations |-> 1, shrinkage_factor |-> Rat(1, 4),
     max_multiplier |-> Rat(8, 5)]

EnabledConfigs ==
    {[spike_uplift |-> SpikeConfigEnabled(s), growth_calibration |-> GrowthConfig(g, "monthly")] :
        s \in BOOLEAN, g \in BOOLEAN}

InitEnabled ==
    /\ pc = "blend"
    /\ config \in EnabledConfigs
    /\ df_hours \in HoursCalendars
    /\ df_sales \in {HistorySpiky, HistoryFlat}
    /\ model_preds = PredsAllDates(MaxDate(df_sales), df_hours)
    /\ weights = WeightsEven
    /\ df_forecast = EmptyFrame
    /\ df_uplift = Unbound
    /\ n_adjusted = -1
    /\ shutil_bound = FALSE
    /\ calibration_mode_used = "none"
    /\ files = {}
    /\ outcome = "running"
    /\ steps = <<>>
    /\ blend = EmptyFrame
    /\ guard_in = EmptyFrame
    /\ spike_fail = "none"
    /\ calib_fail = "none"
    /\ overrides = NoOverrideFile
    /\ run_log = NoRunLog
    /\ call = [fn |-> "generate_forecast"] /\ ret = [n |-> 0]

SpecEnabled == InitEnabled /\ [][Next]_vars

\* ---- apply_spike_overlay(df_forecast, df_spike_flags, multipliers) ----
\* The out-of-fold overlay of features/oof_spike_overlay.py.

OofFlags == {"is_black_friday", "is_day_after_thanksgiving", "is_year_end_week"}

\* Multipliers within the caps [0.85, 1.80] of compute_oof_spike_multipliers.
OofMultiplierValues == {Rat(9, 10), Rat(6, 5), Rat(3, 2)}

OofMultipliers == UNION {[S -> OofMultiplierValues] : S \in SUBSET OofFlags}

OofDays == {<<2026, 11, 27>>, <<2026, 12, 26>>}

\* The forecast merged with the flags: per day the quantiles and the set of
\* flags that are 1.
OofFrames ==
    [OofDays -> [p50 : {RInt(10)}, p80 : {RInt(12)}, p90 : {RInt(16)}, active : SUBSET OofFlags]]

RECURSIVE OverlayMult(_, _, _)
\* for flag, m in multipliers.items():
\*     mult = np.where(active, np.maximum(mult, m), mult)
OverlayMult(mult, multipliers, row) ==
    IF DOMAIN multipliers = {} THEN mult
    ELSE LET flag == CHOOSE f \in DOMAIN multipliers : TRUE
             rest == [f \in DOMAIN multipliers \ {flag} |-> multipliers[f]]
         IN  OverlayMult(IF flag \in row.active THEN RMax(mult, multipliers[flag]) ELSE mult,
                         rest, row)

\* mult = np.ones(len(df)); the loop; df[q] = df[q] * df["overlay_multiplier"]
ApplySpikeOverlay(df, multipliers) ==
    [d \in DOMAIN df |->
        LET mult == OverlayMult(ROne, multipliers, df[d])
        IN  [p50 |-> RMul(df[d].p50, mult), p80 |-> RMul(df[d].p80, mult),
             p90 |-> RMul(df[d].p90, mult), active |-> df[d].active,
             overlay_multiplier |-> mult]]

InitOofOverlay ==
    /\ IdlePipe
    /\ call \in [fn : {"apply_spike_overlay"}, df_forecast : OofFrames,
                  multipliers : OofMultipliers]
    /\ ret = [n |-> 0]

OofOverlayCall ==
    /\ call.fn = "apply_spike_overlay" /\ ret.n = 0
    /\ ret' = [n |-> 1, df |-> ApplySpikeOverlay(call.df_forecast, call.multipliers)]
    /\ UNCHANGED <<pipeVars, call>>

NextOofOverlay == OofOverlayCall

SpecOofOverlay == InitOofOverlay /\ [][NextOofOverlay]_vars

-----------------------------------------------------------------------------
(* Properties of generate_forecast.                                        *)

Written == "forecast_daily" \in files

Ordered(r) == RLe(RZero, r.p50) /\ RLe(r.p50, r.p80) /\ RLe(r.p80, r.p90)

SameQuantiles(f, g) ==
    /\ DOMAIN f.rows = DOMAIN g.rows
    /\ \A d \in DOMAIN f.rows :
          /\ f.rows[d].p50 = g.rows[d].p50
          /\ f.rows[d].p80 = g.rows[d].p80
          /\ f.rows[d].p90 = g.rows[d].p90

\* C1: every row of the written daily forecast has 0 <= p50 <= p80 <= p90,
\* whichever optional step ran or failed and whatever the override file holds.
C1_QuantilesOrdered ==
    Written => \A d \in DOMAIN df_forecast.rows : Ordered(df_forecast.rows[d])

\* A written forecast whose frame, after a failed calibration and an override,
\* entered the final guardrails with a negative and disordered row.
C1_Witness ==
    /\ Written
    /\ calib_fail # "none"
    /\ overrides.exists
    /\ \E d \in DOMAIN steps[6].input.rows :
          /\ RLt(steps[6].input.rows[d].p50, RZero)
          /\ RLt(steps[6].input.rows[d].p90, steps[6].input.rows[d].p80)

\* C2: every date the hours calendar marks closed has p50 = p80 = p90 = 0 in
\* the written daily forecast, and the is_closed flag of every row is the
\* calendar's flag (False where the calendar has no row for the date).
C2_ClosedDaysZero ==
    Written =>
        \A d \in DOMAIN df_forecast.rows :
            /\ df_forecast.rows[d].is_closed = FillNaFalse(HoursClosed(df_hours, d))
            /\ HoursClosed(df_hours, d) = "T" =>
                  /\ df_forecast.rows[d].p50 = RZero
                  /\ df_forecast.rows[d].p80 = RZero
                  /\ df_forecast.rows[d].p90 = RZero

\* A written forecast with a calendar-closed date that was uplifted by the
\* overlay and given a positive override value before the final guardrails.
C2_Witness ==
    /\ Written
    /\ \E d \in DOMAIN df_forecast.rows :
          /\ HoursClosed(df_hours, d) = "T"
          /\ guard_in.rows[d].adjustment_multiplier # ROne
          /\ RLt(RZero, steps[6].input.rows[d].p50)

MandatedOrder == <<"ensemble_blend", "spike_uplift", "guardrails", "growth_calibration",
                   "overrides", "guardrails">>

\* C3: the steps run in the order blend, spike uplift, guardrails, growth
\* calibration, overrides, guardrails; each takes the previous step's output;
\* no step after the final guardrails changes a quantile.
C3_StepOrder ==
    /\ \A i \in 1..Len(steps) :
          /\ i <= Len(MandatedOrder) => steps[i].step = MandatedOrder[i]
          /\ i > 1 => steps[i].input = steps[i - 1].output
          /\ i > Len(MandatedOrder) =>
                /\ SameQuantiles(steps[i].output, steps[Len(MandatedOrder)].output)
                /\ steps[i].step \notin {"ensemble_blend", "spike_uplift", "guardrails",
                                          "growth_calibration", "overrides"}
    /\ Written => /\ Len(steps) > Len(MandatedOrder)
                  /\ SameQuantiles(df_forecast, steps[Len(MandatedOrder)].output)

\* A returned run in which the uplift, the calibration and the overrides each
\* changed the quantiles of the frame they were given.
C3_Witness ==
    /\ outcome = "returned"
    /\ ~SameQuantiles(steps[2].input, steps[2].output)
    /\ ~SameQuantiles(steps[3].input, steps[3].output)
    /\ ~SameQuantiles(steps[4].input, steps[4].output)
    /\ ~SameQuantiles(steps[5].input, steps[5].output)
    /\ ~SameQuantiles(steps[6].input, steps[6].output)

AllOutputs == {"forecast_daily", "run_log_slug", "run_log", "rollups_ordering",
               "rollups_scheduling"}

CalibrationOffOrRaised == ~config.growth_calibration.enabled \/ calib_fail # "none"

\* C8: when growth calibration is disabled or raises at any point,
\* generate_forecast still completes: it has written the daily forecast, the
\* run metadata and its stable copy and both rollups, and it returns.
C8_CompletesWithoutCalibration ==
    (pc = "done" /\ CalibrationOffOrRaised) =>
        (outcome = "returned" /\ AllOutputs \subseteq files)

\* C9: if any operation in the spike-uplift step raises, the forecast that
\* enters the guardrails carries the ensemble-blend quantiles, with no uplift.
C9_FailedUpliftLeavesBlend ==
    (Len(steps) >= 3 /\ spike_fail # "none") => SameQuantiles(guard_in, blend)

-----------------------------------------------------------------------------
(* Properties of the component functions.                                  *)

Returned == ret.n >= 1

SameRows(f, g) ==
    /\ SameQuantiles(f, g)
    /\ \A d \in DOMAIN f.rows : f.rows[d].is_closed = g.rows[d].is_closed

\* C7: apply_guardrails is idempotent: applying it again, any number of times,
\* to its own result under the same calendar (one row per date) gives the same
\* rows, the same closed flags and the same p50/p80/p90.
C7_GuardrailsIdempotent ==
    (call.fn = "apply_guardrails" /\ Returned) => SameRows(ret.last, ret.first)

\* A second application on a frame whose first application changed a
\* quantile and overwrote the frame's own closed flag with the calendar's.
C7_Witness ==
    /\ call.fn = "apply_guardrails" /\ ret.n = 2
    /\ "is_closed" \in call.df.cols
    /\ ~SameQuantiles(call.df, ret.first)
    /\ \E d \in DOMAIN call.df.rows :
          /\ call.df.rows[d].is_closed = "F"
          /\ ret.first.rows[d].is_closed = "T"

\* The flags of row d that are a column of the frame, True on the row and
\* have a prior.
ActiveSet(df, d, upl) ==
    {f \in df.flagcols : f \in df.rows[d].flags /\ f \in DOMAIN UpliftMap(upl)}

IsMaxOf(m, upl, active) ==
    /\ \E f \in active : UpliftMap(upl)[f] = m
    /\ \A f \in active : RLe(UpliftMap(upl)[f], m)

\* C4: on every day with N >= 1 active flags that have a prior, the multiplier
\* applied to p50, p80 and p90 and recorded as adjustment_multiplier is the
\* maximum of those flags' multipliers; a day with no active flag keeps its
\* quantiles and has multiplier 1.
C4_MaxNotProduct ==
    (call.fn = "apply_spike_uplift_overlay" /\ Returned) =>
        \A d \in DOMAIN call.df_forecast.rows :
            LET before == call.df_forecast.rows[d]
                after == ret.df.rows[d]
                active == ActiveSet(call.df_forecast, d, call.df_uplift)
                m == after.adjustment_multiplier
            IN  /\ after.p50 = RMul(before.p50, m)
                /\ after.p80 = RMul(before.p80, m)
                /\ after.p90 = RMul(before.p90, m)
                /\ IF active = {} THEN m = ROne
                   ELSE IsMaxOf(m, call.df_uplift, active)

\* A day with two active flags whose multipliers differ and whose product is
\* not their maximum, next to a day with no active flag.
C4_Witness ==
    /\ call.fn = "apply_spike_uplift_overlay" /\ Returned
    /\ \E d \in DOMAIN call.df_forecast.rows :
          LET active == ActiveSet(call.df_forecast, d, call.df_uplift)
          IN  \E f, g \in active :
                 /\ UpliftMap(call.df_uplift)[f] # UpliftMap(call.df_uplift)[g]
                 /\ RMul(UpliftMap(call.df_uplift)[f], UpliftMap(call.df_uplift)[g])
                       # ret.df.rows[d].adjustment_multiplier
    /\ \E d \in DOMAIN call.df_forecast.rows :
          ActiveSet(call.df_forecast, d, call.df_uplift) = {}

\* The weight the bucket's table gives model m (0 when it has none).
TableWeight(d, m) ==
    LET wb == BucketWeights(call.weights, WeightModels(call.weights),
                            DateBucket(call.model_predictions, d))
    IN  IF m \in DOMAIN wb THEN wb[m] ELSE RZero

\* C5: for every target date the effective weights of the blend are defined
\* on the models present, are non-negative and sum to 1; they are the bucket's
\* weights renormalised over the present models, or uniform when those sum to
\* zero; each blended quantile lies between the present models' smallest and
\* largest value.
C5_WeightsNormalised ==
    (call.fn = "predict" /\ Returned) =>
        \A d \in DOMAIN ret.norm_w :
            LET w == ret.norm_w[d]
                present == AvailableModels(call.model_predictions, d)
                total == RSum([m \in present |-> TableWeight(d, m)], present)
            IN  /\ DOMAIN w = present
                /\ \A m \in present : RLe(RZero, w[m])
                /\ RSum(w, present) = ROne
                /\ IF RLt(RZero, total)
                   THEN \A m \in present : RMul(w[m], total) = TableWeight(d, m)
                   ELSE \A m \in present : w[m] = Rat(1, Cardinality(present))
                /\ \A q \in {"p50", "p80", "p90"} :
                      /\ \E m \in present : RLe(call.model_predictions[m][d][q], ret.df.rows[d][q])
                      /\ \E m \in present : RLe(ret.df.rows[d][q], call.model_predictions[m][d][q])

\* A blend of two present models that the bucket's table gives no weight,
\* while it gives weight to an absent one.
C5_Witness ==
    /\ call.fn = "predict" /\ Returned
    /\ \E d \in DOMAIN ret.norm_w :
          LET present == AvailableModels(call.model_predictions, d)
              wb == call.weights["1-7"]
          IN  /\ DateBucket(call.model_predictions, d) = "1-7"
              /\ Cardinality(present) = 2
              /\ present \cap DOMAIN wb = {}
              /\ \E m \in DOMAIN wb : RLt(RZero, wb[m])

\* The calibration_scale values written to the forecast and to the log.
WrittenScales ==
    {ret.df.rows[d].calibration_scale : d \in DOMAIN ret.df.rows}
    \cup {ret.log[d].calibration_scale : d \in DOMAIN ret.log}

WithinLimits(sc) == RLe(call.min_scale, sc) /\ RLe(sc, call.max_scale)

\* C6 as stated: every calibration_scale written, excluded days and skipped
\* months included, lies within [min_scale, max_scale].
C6_ScaleAlwaysWithinLimits ==
    (call.fn = "apply_growth_calibration" /\ Returned) =>
        \A sc \in WrittenScales : WithinLimits(sc)

\* C6: every calibration_scale written lies within [min_scale, max_scale] or
\* is exactly 1.0, the value recorded on excluded days, skipped months and a
\* skipped calibration; the scale of every scaled day lies within the limits.
C6_ScaleWithinLimitsOrOne ==
    (call.fn = "apply_growth_calibration" /\ Returned) =>
        /\ \A sc \in WrittenScales : WithinLimits(sc) \/ sc = ROne
        /\ \A d \in DOMAIN ret.df.rows :
              /\ ret.log[d].calibration_scale = ret.df.rows[d].calibration_scale
              /\ ret.df.rows[d].p50 # call.df_forecast.rows[d].p50 =>
                    WithinLimits(ret.df.rows[d].calibration_scale)

\* Limits that leave 1.0 out, a day scaled by the upper limit and an excluded
\* day recorded with 1.0.
C6_Witness ==
    /\ call.fn = "apply_growth_calibration" /\ Returned
    /\ RLt(ROne, call.min_scale)
    /\ \E d \in DOMAIN ret.df.rows :
          /\ ret.df.rows[d].calibration_scale = call.max_scale
          /\ ret.df.rows[d].p50 = RMul(call.df_forecast.rows[d].p50, call.max_scale)
    /\ \E d \in DOMAIN ret.log :
          ret.log[d].is_excluded /\ ret.log[d].calibration_scale = ROne

\* C10: the wrapper has the parameters of generate_forecast and every call of
\* it delegates: no keyword it forwards is rejected.
C10_WrapperDelegates ==
    (call.fn = "generate_2026_forecast" /\ Returned) =>
        /\ WrapperParams = GenerateForecastParams
        /\ ret.raised = "none"
        /\ ret.delegated

\* C11: after fit on an input with at least one out-of-fold row, each of the
\* five buckets has a weight for every model of the roster, every weight is
\* non-negative and the bucket's weights sum to 1; a bucket with no row has
\* equal weights (the first bucket) or the weights of the bucket before it.
C11_FitWeightsNormalised ==
    (call.fn = "fit" /\ ret.n = Len(Buckets)) =>
        /\ DOMAIN ret.weights = BucketNames
        /\ \A i \in 1..Len(Buckets) :
              LET w == ret.weights[Buckets[i]]
                  models == FitRoster(call.df_all)
              IN  /\ DOMAIN w = models
                  /\ \A m \in models : RLe(RZero, w[m])
                  /\ RSum(w, models) = ROne
                  /\ call.df_all[Buckets[i]] = {} =>
                        IF i = 1 THEN w = EqualWeights(models)
                        ELSE w = ret.weights[Buckets[i - 1]]

\* A finished fit in which one bucket was optimised over fewer models than
\* the roster, another fell back after a failed optimisation, and an empty
\* bucket inherited weights that are not equal.
C11_Witness ==
    /\ call.fn = "fit" /\ ret.n = Len(Buckets)
    /\ \E b \in ret.solved : FitRoster(call.df_all) \cap PivotColumns(call.df_all[b])
                                # FitRoster(call.df_all)
    /\ \E b \in BucketNames \ ret.solved :
          ReachesSolver(FitRoster(call.df_all), call.df_all[b], call.min_rows)
    /\ call.df_all["91-380"] = {}
    /\ ret.weights["91-380"] # EqualWeights(FitRoster(call.df_all))

\* The forecast days of a month that the call excludes / does not exclude.
CallExcluded(d) ==
    IsExcluded(call.df_forecast, call.df_forecast.rows[d], call.excluded_spike_flags)

CallMonthDays(month, excluded) ==
    {d \in DOMAIN call.df_forecast.rows : MonthOf(d) = month /\ CallExcluded(d) = excluded}

\* The statement about one month: raw scale, clipped scale applied to the
\* non-excluded days, and the month on target when the scale is not clipped.
MonthCalibrated(month, baseline_month_total) ==
    LET nonexcluded == CallMonthDays(month, FALSE)
        excluded == CallMonthDays(month, TRUE)
        target == RMul(baseline_month_total, RAdd(ROne, call.target_yoy_rate))
        raw == RDiv(RSub(target, P50Total(call.df_forecast, excluded)),
                   P50Total(call.df_forecast, nonexcluded))
        scale == IF RLt(raw, call.min_scale) THEN call.min_scale
                 ELSE IF RLt(call.max_scale, raw) THEN call.max_scale ELSE raw
    IN  /\ \A d \in nonexcluded :
              /\ ret.df.rows[d].p50 = RMul(call.df_forecast.rows[d].p50, scale)
              /\ ret.df.rows[d].p80 = RMul(call.df_forecast.rows[d].p80, scale)
              /\ ret.df.rows[d].p90 = RMul(call.df_forecast.rows[d].p90, scale)
              /\ ret.df.rows[d].calibration_scale = scale
        /\ scale = raw => P50Total(ret.df, nonexcluded \cup excluded) = target

MonthlyCall == call.fn = "apply_growth_calibration" /\ call.mode = "monthly" /\ Returned

\* C12 as stated: in monthly mode, every month that has a row in the baseline
\* year and a positive non-excluded forecast total is scaled by the clipped
\* (baseline month total x (1 + rate) - excluded total) / non-excluded total.
C12_EveryBaselineMonthScaled ==
    MonthlyCall =>
        \A month \in 1..12 :
            LET rows == {a \in DOMAIN call.df_hist.rows :
                            a[1] = BaselineYear(call.df_hist) /\ a[2] = month}
            IN  (rows # {} /\ RLt(RZero, P50Total(call.df_forecast, CallMonthDays(month, FALSE))))
                    => MonthCalibrated(month, SalesTotal(call.df_hist, rows))

\* C12: in monthly mode, every month that has an open day in the baseline
\* year and a positive non-excluded forecast total is scaled by the clipped
\* (baseline month total over open days x (1 + rate) - excluded total) /
\* non-excluded total, and is on target when the scale is not clipped; the
\* other months keep their quantiles.
C12_OpenBaselineMonthScaled ==
    MonthlyCall =>
        \A month \in 1..12 :
            LET rows == {a \in DOMAIN call.df_hist.rows :
                            /\ a[1] = BaselineYear(call.df_hist) /\ a[2] = month
                            /\ ~call.df_hist.rows[a].is_closed}
            IN  IF rows # {} /\ RLt(RZero, P50Total(call.df_forecast, CallMonthDays(month, FALSE)))
                THEN MonthCalibrated(month, SalesTotal(call.df_hist, rows))
                ELSE \A d \in CallMonthDays(month, FALSE) :
                        /\ ret.df.rows[d].p50 = call.df_forecast.rows[d].p50
                        /\ ret.df.rows[d].calibration_scale = ROne

\* A month with an excluded day of positive forecast whose non-excluded days
\* are scaled by a scale that is not 1 and not clipped.
C12_Witness ==
    /\ MonthlyCall
    /\ \E d \in DOMAIN ret.df.rows :
          /\ ~CallExcluded(d)
          /\ ret.df.rows[d].calibration_scale # ROne
          /\ RLt(call.min_scale, ret.df.rows[d].calibration_scale)
          /\ RLt(ret.df.rows[d].calibration_scale, call.max_scale)
          /\ RLt(RZero, P50Total(call.df_forecast, CallMonthDays(MonthOf(d), TRUE)))

\* The growth-calibration step of the run has written a calibration_scale.
CalibrationApplied ==
    /\ Len(steps) >= 4
    /\ "calibration_scale" \in steps[4].output.cols

\* C13: in generate_forecast every day the overlay uplifted (multiplier not
\* 1.0) and every closed day is excluded from growth calibration: the step
\* leaves its quantiles unchanged and, when it writes a scale, records 1.0.
C13_UpliftedDaysNotRescaled ==
    Len(steps) >= 4 =>
        \A d \in DOMAIN steps[4].input.rows :
            (\/ steps[4].input.rows[d].adjustment_multiplier # ROne
             \/ steps[4].input.rows[d].is_closed = "T") =>
                /\ steps[4].output.rows[d].p50 = steps[4].input.rows[d].p50
                /\ steps[4].output.rows[d].p80 = steps[4].input.rows[d].p80
                /\ steps[4].output.rows[d].p90 = steps[4].input.rows[d].p90
                /\ steps[4].output.rows[d].calibration_scale = ROne

\* A run whose calibration rescaled a day while the frame had an uplifted
\* open day and a closed day.
C13_Witness ==
    /\ CalibrationApplied
    /\ \E d \in DOMAIN steps[4].output.rows : steps[4].output.rows[d].calibration_scale # ROne
    /\ \E d \in DOMAIN steps[4].input.rows :
          /\ steps[4].input.rows[d].adjustment_multiplier # ROne
          /\ steps[4].input.rows[d].is_closed = "F"
          /\ RLt(RZero, steps[4].input.rows[d].p50)
    /\ \E d \in DOMAIN steps[4].input.rows : steps[4].input.rows[d].is_closed = "T"

\* The rows of the two histories dated up to c are the same.
AgreeUpTo(c) ==
    TrainRows(call.df_sales, c) = TrainRows(call.other, c)

\* The target dates and horizons of the out-of-fold rows are as documented.
OofRowsInRange ==
    \A r \in ret.preds :
        /\ r.target_date \in DOMAIN call.df_sales.rows
        /\ r.horizon = DaysBetween(r.target_date, r.cutoff_date)
        /\ r.horizon >= 1
        /\ r.horizon <= call.max_horizon
        /\ DateLe(r.target_date, MaxDate(call.df_sales))

\* C14: the baseline backtest is leakage-safe: every out-of-fold row of
\* cutoff c has a target date of the history in (c, c + min(max_horizon,
\* history end - c)], horizon = target - c >= 1, and quantiles that depend
\* only on the sales rows dated <= c: two histories that agree up to c get
\* the same predictions at cutoff c for the same model and target date.
C14_BacktestLeakageSafe ==
    call.fn = "run_baseline_backtest" =>
        /\ OofRowsInRange
        /\ \A r \in ret.preds : \A o \in ret.other :
              (/\ r.cutoff_date = o.cutoff_date
               /\ r.target_date = o.target_date
               /\ r.model_name = o.model_name
               /\ AgreeUpTo(r.cutoff_date)) => r.p50 = o.p50

\* The loaded mapping has the buckets and, per bucket, the models of the saved one.
SameBucketsAndModels ==
    /\ DOMAIN ret.weights = DOMAIN call.weights
    /\ \A b \in DOMAIN call.weights : DOMAIN ret.weights[b] = DOMAIN call.weights[b]

\* C15: saving a fitted weights mapping and loading it again gives the same
\* buckets, the same models per bucket and the same weight for each bucket
\* and model.
C15_WeightsRoundTrip ==
    (call.fn = "save" /\ ret.n = 2) =>
        /\ SameBucketsAndModels
        /\ \A b \in DOMAIN call.weights : \A m \in DOMAIN call.weights[b] :
              ret.weights[b][m] = call.weights[b][m]

C15_StructureRoundTrip ==
    (call.fn = "save" /\ ret.n = 2) => SameBucketsAndModels

\* The forecast of the first call with its exclusion marks.
FirstMarked == MarkExcluded(call.df_forecast, call.excluded_spike_flags)

\* The raw scale of a month in the first call.
FirstRawScale(month) ==
    RawScale(RMul(HistMonthTotal(call.df_hist, month), RAdd(ROne, call.target_yoy_rate)),
             P50Total(FirstMarked, MonthExcluded(FirstMarked, month)),
             P50Total(FirstMarked, MonthNonExcluded(FirstMarked, month)))

\* The first call scaled the month, and did not clip its scale.
FirstRunUnclipped(month) ==
    /\ ~MonthSkipped(FirstMarked, call.df_hist, month)
    /\ RLe(call.min_scale, FirstRawScale(month))
    /\ RLe(FirstRawScale(month), call.max_scale)

\* The second call gives the month scale 1.0 and leaves its quantiles.
SecondRunLeaves(month) ==
    \A d \in {a \in DOMAIN ret.df.rows : MonthOf(a) = month} :
        /\ ret.df.rows[d].calibration_scale = ROne
        /\ ret.df.rows[d].p50 = ret.first.rows[d].p50
        /\ ret.df.rows[d].p80 = ret.first.rows[d].p80
        /\ ret.df.rows[d].p90 = ret.first.rows[d].p90

Recalibrated == call.fn = "recalibrate" /\ ret.n = 2

\* C16 as stated: a second monthly calibration of a calibrated forecast gives
\* scale 1.0 and unchanged quantiles for every month whose first scale was
\* not clipped.
C16_RerunScaleOne ==
    Recalibrated => \A month \in 1..12 : FirstRunUnclipped(month) => SecondRunLeaves(month)

\* C16: a second monthly calibration of a calibrated forecast gives scale 1.0
\* and unchanged quantiles for every month whose first scale was not clipped,
\* when 1.0 lies within the scale limits.
C16_RerunScaleOneWithinLimits ==
    (Recalibrated /\ RLe(call.min_scale, ROne) /\ RLe(ROne, call.max_scale)) =>
        \A month \in 1..12 : FirstRunUnclipped(month) => SecondRunLeaves(month)

\* A month with an excluded day that the first call scaled by an unclipped
\* scale other than 1, calibrated again, with 1.0 within the limits.
C16_Witness ==
    /\ Recalibrated /\ RLe(call.min_scale, ROne) /\ RLe(ROne, call.max_scale)
    /\ \E month \in 1..12 :
          /\ FirstRunUnclipped(month)
          /\ FirstRawScale(month) # ROne
          /\ MonthExcluded(FirstMarked, month) # {}
          /\ \E d \in MonthNonExcluded(FirstMarked, month) :
                ret.first.rows[d].p50 # call.df_forecast.rows[d].p50

PriorsReturned == call.fn = "compute_spike_uplift_priors" /\ ret.n = 1

\* The open days of the call's history with / without a flag.
CallSpikeDays(flag) == {a \in OpenDays(call.df_sales) : flag \in SpikeDayFlags(a)}
CallNonSpikeDays(flag) == {a \in OpenDays(call.df_sales) : flag \notin SpikeDayFlags(a)}

\* The priors table has one row per flag column, in order, when the history
\* has an open day.
OneRowPerFlag ==
    OpenDays(call.df_sales) # {} =>
        /\ Len(ret.table) = Len(SpikeFlagOrder)
        /\ \A i \in 1..Len(SpikeFlagOrder) : ret.table[i].spike_flag = SpikeFlagOrder[i]

\* The confidence that goes with n observations.
ConfidenceByCount(n) ==
    IF n >= 5 THEN "high" ELSE IF n >= 3 THEN "medium" ELSE IF n >= 2 THEN "low" ELSE "very_low"

\* C17 as stated: the confidence of every flag is a function of its number n
\* of open spike days: 'insufficient' with multiplier 1.0 when
\* n < min_observations, else 'high', 'medium', 'low' or 'very_low' by n.
C17_ConfidenceByCount ==
    PriorsReturned =>
        /\ OneRowPerFlag
        /\ \A i \in DOMAIN ret.table :
              LET r == ret.table[i]
                  n == Cardinality(CallSpikeDays(r.spike_flag))
              IN  IF n < call.min_observations
                  THEN r.uplift_multiplier = ROne /\ r.confidence = "insufficient"
                  ELSE r.confidence = ConfidenceByCount(n)

\* C17: the same, for the flags that have an open day without the flag; a
\* flag with enough spike days and no such day gets multiplier 1.0 and
\* confidence 'no_baseline'.
C17_ConfidenceByCountOrNoBaseline ==
    PriorsReturned =>
        /\ OneRowPerFlag
        /\ \A i \in DOMAIN ret.table :
              LET r == ret.table[i]
                  n == Cardinality(CallSpikeDays(r.spike_flag))
              IN  IF n < call.min_observations
                  THEN r.uplift_multiplier = ROne /\ r.confidence = "insufficient"
                  ELSE IF CallNonSpikeDays(r.spike_flag) = {}
                  THEN r.uplift_multiplier = ROne /\ r.confidence = "no_baseline"
                  ELSE r.confidence = ConfidenceByCount(n)

\* A table with a flag without observations, and flags of every confidence
\* from 'very_low' to 'high'.
C17_Witness ==
    /\ PriorsReturned
    /\ \E i \in DOMAIN ret.table :
          ret.table[i].n_obs = 0 /\ ret.table[i].confidence = "insufficient"
    /\ \E i \in DOMAIN ret.table :
          ret.table[i].n_obs = 1 /\ ret.table[i].confidence = "very_low"
    /\ \E i \in DOMAIN ret.table :
          ret.table[i].n_obs >= 5 /\ ret.table[i].confidence = "high"

\* clip(1 + shrinkage_factor x (median(spike) / median(baseline) - 1), 0.7,
\* max_multiplier) for a flag with spike days and a matched baseline.
ClippedUplift(flag) ==
    LET spike == MedianY(call.df_sales, CallSpikeDays(flag))
        base == MedianY(call.df_sales,
                        MatchedBaseline(call.df_sales, flag, CallSpikeDays(flag)).days)
        shrunk == RAdd(ROne, RMul(call.shrinkage_factor, RSub(RDiv(spike, base), ROne)))
    IN  IF RLt(call.max_multiplier, shrunk) THEN call.max_multiplier
        ELSE IF RLt(shrunk, Rat(7, 10)) THEN Rat(7, 10)
        ELSE shrunk

EqualMedians(flag) ==
    MedianY(call.df_sales, CallSpikeDays(flag))
        = MedianY(call.df_sales, MatchedBaseline(call.df_sales, flag, CallSpikeDays(flag)).days)

HasEnoughSpikeDays(flag) == Cardinality(CallSpikeDays(flag)) >= call.min_observations

\* C18 as stated: every flag with at least min_observations open spike days
\* has the multiplier clip(1 + shrinkage x (median ratio - 1), 0.7,
\* max_multiplier); every multiplier of the table lies in
\* [0.7, max_multiplier], and is 1.0 when the two medians are equal.
C18_MultiplierFormula ==
    PriorsReturned =>
        \A i \in DOMAIN ret.table :
            LET r == ret.table[i]
            IN  /\ HasEnoughSpikeDays(r.spike_flag) =>
                      /\ CallNonSpikeDays(r.spike_flag) # {}
                      /\ r.uplift_multiplier = ClippedUplift(r.spike_flag)
                      /\ EqualMedians(r.spike_flag) => r.uplift_multiplier = ROne
                /\ RLe(Rat(7, 10), r.uplift_multiplier)
                /\ RLe(r.uplift_multiplier, call.max_multiplier)

\* C18: every flag with at least min_observations open spike days and an
\* open day without the flag has the multiplier clip(1 + shrinkage x (median
\* ratio - 1), 0.7, max_multiplier), every other flag has 1.0; when
\* max_multiplier >= 1.0, every multiplier of the table lies in
\* [0.7, max_multiplier], and is 1.0 when the two medians are equal.
C18_MultiplierFormulaWithBaseline ==
    PriorsReturned =>
        \A i \in DOMAIN ret.table :
            LET r == ret.table[i]
            IN  /\ IF HasEnoughSpikeDays(r.spike_flag) /\ CallNonSpikeDays(r.spike_flag) # {}
                   THEN /\ r.uplift_multiplier = ClippedUplift(r.spike_flag)
                        /\ (EqualMedians(r.spike_flag) /\ RLe(ROne, call.max_multiplier))
                              => r.uplift_multiplier = ROne
                   ELSE r.uplift_multiplier = ROne
                /\ RLe(ROne, call.max_multiplier) =>
                      /\ RLe(Rat(7, 10), r.uplift_multiplier)
                      /\ RLe(r.uplift_multiplier, call.max_multiplier)

\* A table with one multiplier capped at 0.7, one capped at max_multiplier,
\* and one of a single observation strictly between the caps and not 1.0.
C18_Witness ==
    /\ PriorsReturned /\ RLe(ROne, call.max_multiplier)
    /\ \E i \in DOMAIN ret.table :
          ret.table[i].confidence = "very_low" /\ ret.table[i].uplift_multiplier = Rat(7, 10)
    /\ \E i \in DOMAIN ret.table :
          /\ ret.table[i].confidence \notin {"insufficient", "no_baseline"}
          /\ ret.table[i].uplift_multiplier = call.max_multiplier
    /\ \E i \in DOMAIN ret.table :
          /\ ret.table[i].n_obs = 1
          /\ ret.table[i].uplift_multiplier # ROne
          /\ RLt(Rat(7, 10), ret.table[i].uplift_multiplier)
          /\ RLt(ret.table[i].uplift_multiplier, call.max_multiplier)

\* The non-spike open days of the weekday (and month) that is most frequent
\* among the spike days of a flag.
SpikeWeekday(flag) ==
    LET S == CallSpikeDays(flag)
        dows == {DayOfWeek(a) : a \in S}
        count(v) == Cardinality({a \in S : DayOfWeek(a) = v})
        top == {v \in dows : \A u \in dows : count(u) <= count(v)}
    IN  CHOOSE v \in top : \A u \in top : v <= u

SpikeMonth(flag) ==
    LET S == CallSpikeDays(flag)
        months == {a[2] : a \in S}
        count(v) == Cardinality({a \in S : a[2] = v})
        top == {v \in months : \A u \in months : count(u) <= count(v)}
    IN  CHOOSE v \in top : \A u \in top : v <= u

SameWeekdayAndMonth(flag) ==
    {a \in CallNonSpikeDays(flag) :
        DayOfWeek(a) = SpikeWeekday(flag) /\ a[2] = SpikeMonth(flag)}

SameWeekday(flag) ==
    {a \in CallNonSpikeDays(flag) : DayOfWeek(a) = SpikeWeekday(flag)}

\* The set and the name the cascade prescribes for a flag.
CascadeMethod(flag) ==
    IF Cardinality(SameWeekdayAndMonth(flag)) >= 3 THEN "dow_month"
    ELSE IF Cardinality(SameWeekday(flag)) >= 3 THEN "dow_all"
    ELSE "all_nonspike"

CascadeDays(flag) ==
    IF CascadeMethod(flag) = "dow_month" THEN SameWeekdayAndMonth(flag)
    ELSE IF CascadeMethod(flag) = "dow_all" THEN SameWeekday(flag)
    ELSE CallNonSpikeDays(flag)

\* The multiplier computed from a given baseline set.
UpliftFrom(flag, days) ==
    LET spike == MedianY(call.df_sales, CallSpikeDays(flag))
        base == MedianY(call.df_sales, days)
        shrunk == RAdd(ROne, RMul(call.shrinkage_factor, RSub(RDiv(spike, base), ROne)))
    IN  RClip(shrunk, Rat(7, 10), call.max_multiplier)

LatestDate ==
    CHOOSE d \in DOMAIN call.df_hist.rows :
        \A e \in DOMAIN call.df_hist.rows :
            e[1] * 10000 + e[2] * 100 + e[3] <= d[1] * 10000 + d[2] * 100 + d[3]

\* The year of the latest date when it is December 31, else the year before.
LastCompleteYear ==
    IF LatestDate[2] = 12 /\ LatestDate[3] = 31 THEN LatestDate[1] ELSE LatestDate[1] - 1

\* C20: each of the three computations of the baseline year returns the
\* year of the latest date d of the history if d is December 31 and the year
\* before otherwise; so the three return the same year for the same history.
C20_BaselineYearAgrees ==
    call.fn = "baseline_year" =>
        /\ ret.calibration \in {NoYear, LastCompleteYear}
        /\ ret.export \in {NoYear, LastCompleteYear}
        /\ ret.event_uplift \in {NoYear, LastCompleteYear}

\* The three have returned 2025 for a history whose latest date is
\* 2025-12-31 and that also has 2025-12-30.
C20_Witness ==
    /\ call.fn = "baseline_year" /\ ret.n = 3
    /\ ret.calibration = ret.export /\ ret.export = ret.event_uplift
    /\ ret.calibration = 2025
    /\ LatestDate = <<2025, 12, 31>>
    /\ <<2025, 12, 30>> \in DOMAIN call.df_hist.rows

\* No requested model has a backtest prediction row.
NoPredictionRows ==
    \A m \in DOMAIN BacktestPredsPaths : call.backtest_files[BacktestPredsPaths[m]] # "rows"

\* C21: when no backtest prediction row is available at the ensemble-fitting
\* step, run_pipeline exits with a non-zero code at that step: it writes no
\* ensemble weights file and does not start the forecast generation.
C21_AbortsWithoutPredictions ==
    (call.fn = "run_pipeline" /\ NoPredictionRows) =>
        /\ ret.weights_file = "absent"
        /\ ~ret.forecast_started
        /\ ret.pc \in {"check_available", "fit", "exited"}
        /\ ret.pc = "exited" => ret.exit_code = 1

\* C22: an exception of one model at one cutoff does not abort the sweep:
\* when the sweep has ended, the out-of-fold predictions of every other
\* cutoff and model are written.
C22_SweepSurvivesException ==
    ("sweeping" \in DOMAIN call /\ ret.pc \in {"raised", "written"}) =>
        \A pair \in SweepPairs(call.fn) \ call.raising : pair \in ret.written

\* The days of the frame in the `days`-day window that starts on `start`.
WindowDays(df, start, days) == {AddDays(start, k) : k \in 0..(days - 1)} \cap DOMAIN df

\* The table has exactly one row of the cycle for the start day, with the
\* sums of the daily quantiles over the window cut at the last forecast date,
\* and the truncation note exactly when the window runs past that date.
HasWindowRow(table, df, start, days, cycle) ==
    LET found == {i \in 1..Len(table) :
                     table[i].coverage_start = start /\ cycle \in SeqToSet(table[i].notes)}
        truncated == DateLt(ForecastEnd(df), AddDays(start, days - 1))
    IN  /\ Cardinality(found) = 1
        /\ \A i \in found :
              /\ \A col \in {"p50", "p80", "p90"} :
                    table[i][col] = SumColumn(df, WindowDays(df, start, days), col)
              /\ ("window_truncated_at_forecast_end" \in SeqToSet(table[i].notes)) <=> truncated

WeekdayRows(df, dow) == {d \in DOMAIN df : DayOfWeek(d) = dow}

\* C23: the ordering table has one row per Sunday (7 days) and one per
\* Wednesday (8 days), the scheduling table one row per Wednesday (7 days);
\* each row sums p50/p80/p90 over its window cut at the last forecast date
\* and carries 'window_truncated_at_forecast_end' exactly when the window
\* extends past that date.
C23_RollupWindows ==
    LET df == call.df_forecast_roll
    IN  /\ (call.fn = "rollups" /\ "rollups_ordering" \in ret.written) =>
              /\ Len(ret.df_ordering) =
                     Cardinality(WeekdayRows(df, 6)) + Cardinality(WeekdayRows(df, 2))
              /\ \A d \in WeekdayRows(df, 6) :
                     HasWindowRow(ret.df_ordering, df, d, 7, "order_cycle=sun_sat")
              /\ \A d \in WeekdayRows(df, 2) :
                     HasWindowRow(ret.df_ordering, df, d, 8, "order_cycle=wed_wed")
        /\ (call.fn = "rollups" /\ "rollups_scheduling" \in ret.written) =>
              /\ Len(ret.df_scheduling) = Cardinality(WeekdayRows(df, 2))
              /\ \A d \in WeekdayRows(df, 2) :
                     HasWindowRow(ret.df_scheduling, df, d, 7, "schedule_week=wed_tue")

\* Both tables are written, and the ordering table holds a whole and a cut
\* Wednesday window and the scheduling table a cut window.
C23_Witness ==
    /\ call.fn = "rollups" /\ ret.pc = "returned"
    /\ \E i, j \in 1..Len(ret.df_ordering) :
          /\ ret.df_ordering[i].notes = <<"order_cycle=wed_wed">>
          /\ ret.df_ordering[j].notes =
                 <<"window_truncated_at_forecast_end", "order_cycle=wed_wed">>
    /\ \E i \in 1..Len(ret.df_ordering) : ret.df_ordering[i].notes = <<"order_cycle=sun_sat">>
    /\ \E i \in 1..Len(ret.df_scheduling) :
          ret.df_scheduling[i].notes =
              <<"window_truncated_at_forecast_end", "schedule_week=wed_tue">>

\* Step `name` of the run left the quantiles of every day as it found them.
StepKeepsQuantiles(name) ==
    \A i \in 1..Len(steps) :
        steps[i].step = name => SameQuantiles(steps[i].input, steps[i].output)

\* C24: with the spike-uplift `enabled` option false the spike uplift step
\* changes no day's quantiles, and with the growth-calibration `enabled`
\* option false the growth calibration step changes no day's quantiles.
C24_EnabledOptionsControlSteps ==
    /\ ~config.spike_uplift.enabled => StepKeepsQuantiles("spike_uplift")
    /\ ~config.growth_calibration.enabled => StepKeepsQuantiles("growth_calibration")

\* The half of C24 about growth calibration alone.
C24_GrowthOptionControlsStep ==
    ~config.growth_calibration.enabled => StepKeepsQuantiles("growth_calibration")

\* Bucket i of the fitted input has fewer than min_rows rows left after the
\* rows with a missing value are dropped.
FewCompleteRows(i) == Cardinality(CompleteKeys(call.df_all[Buckets[i]])) < call.min_rows

\* Bucket i of the fitted input has fewer than min_rows rows before the pivot.
FewRows(i) == Cardinality(call.df_all[Buckets[i]]) < call.min_rows

EqualOrInherited(i) ==
    IF i = 1 THEN ret.weights[Buckets[i]] = EqualWeights(FitRoster(call.df_all))
    ELSE ret.weights[Buckets[i]] = ret.weights[Buckets[i - 1]]

\* C25: a bucket with fewer than min_rows rows left after dropping the rows
\* with a missing model value or actual gets equal weights when it is the
\* bucket 1-7 and the weights of the bucket before it otherwise.
C25_FewCompleteRowsInherit ==
    (call.fn = "fit" /\ ret.n = Len(Buckets)) =>
        \A i \in 1..Len(Buckets) : FewCompleteRows(i) => EqualOrInherited(i)

\* C25 as the code has it: a bucket with fewer than min_rows rows before the
\* pivot gets equal weights (bucket 1-7) or the weights of the bucket before
\* it; a bucket with at least min_rows rows of which fewer than min_rows are
\* complete gets equal weights, whichever bucket it is.
C25_FewRowsInheritFewCompleteEqual ==
    (call.fn = "fit" /\ ret.n = Len(Buckets)) =>
        \A i \in 1..Len(Buckets) :
            /\ FewRows(i) => EqualOrInherited(i)
            /\ (~FewRows(i) /\ FewCompleteRows(i)) =>
                  ret.weights[Buckets[i]] = EqualWeights(FitRoster(call.df_all))

\* A finished fit in which a later bucket with enough rows but too few
\* complete ones follows a bucket with unequal weights, and another later
\* bucket with too few rows inherited unequal weights.
C25_Witness ==
    /\ call.fn = "fit" /\ ret.n = Len(Buckets)
    /\ \E i \in 2..Len(Buckets) :
          /\ ~FewRows(i) /\ FewCompleteRows(i)
          /\ ret.weights[Buckets[i - 1]] # EqualWeights(FitRoster(call.df_all))
    /\ \E i \in 2..Len(Buckets) :
          /\ FewRows(i)
          /\ ret.weights[Buckets[i]] # EqualWeights(FitRoster(call.df_all))

\* Day d of the forecast passed to the call has one of the call's excluded
\* spike flags set, or is closed.
FlaggedOrClosed(d) ==
    \/ call.excluded_spike_flags \cap call.df_forecast.rows[d].flags # {}
    \/ call.df_forecast.rows[d].is_closed = "T"

\* The call returned day d with the quantiles it was given and scale 1.0.
DayLeftAlone(d) ==
    /\ ret.df.rows[d].p50 = call.df_forecast.rows[d].p50
    /\ ret.df.rows[d].p80 = call.df_forecast.rows[d].p80
    /\ ret.df.rows[d].p90 = call.df_forecast.rows[d].p90
    /\ ret.df.rows[d].calibration_scale = ROne

\* The month has no day in the baseline year of the call's history.
MonthAbsentFromBaseline(month) ==
    ~\E a \in DOMAIN call.df_hist.rows :
        a[1] = BaselineYear(call.df_hist) /\ a[2] = month

\* The p50 of the month's days that are neither flagged nor closed add up to 0.
MonthZeroNonExcluded(month) ==
    LET days == {d \in DOMAIN call.df_forecast.rows : MonthOf(d) = month /\ ~FlaggedOrClosed(d)}
    IN  RSum([d \in days |-> call.df_forecast.rows[d].p50], days) = RZero

CalibReturned == call.fn = "apply_growth_calibration" /\ Returned

ExcludedDaysLeftAlone ==
    CalibReturned =>
        /\ \A d \in DOMAIN call.df_forecast.rows : FlaggedOrClosed(d) => DayLeftAlone(d)
        /\ call.mode = "monthly" =>
              \A d \in DOMAIN call.df_forecast.rows :
                  (MonthAbsentFromBaseline(MonthOf(d)) \/ MonthZeroNonExcluded(MonthOf(d)))
                      => DayLeftAlone(d)

\* C26: apply_growth_calibration leaves the quantiles unchanged and records
\* scale 1.0 on every excluded day (a configured spike flag active, or
\* closed) in both modes, and in monthly mode on every day of a month that
\* is absent from the baseline year or has a zero non-excluded forecast
\* total; the call changes neither of the frames it was given.
C26_ExcludedAndSkippedUnchanged ==
    /\ []ExcludedDaysLeftAlone
    /\ [][call.fn = "apply_growth_calibration" =>
             /\ call'.df_forecast = call.df_forecast
             /\ call'.df_hist = call.df_hist]_vars

\* A monthly call that rescaled an open November day, with Black Friday
\* excluded in the same month and December holding excluded days only.
C26_Witness ==
    /\ CalibReturned /\ call.mode = "monthly"
    /\ ret.df.rows[<<2026, 11, 30>>].calibration_scale # ROne
    /\ FlaggedOrClosed(<<2026, 11, 27>>) /\ call.df_forecast.rows[<<2026, 11, 27>>].is_closed # "T"
    /\ MonthZeroNonExcluded(12) /\ ~MonthAbsentFromBaseline(12)

\* The override file of the run has a value for quantile q of date d.
HasOverride(d, q) ==
    /\ overrides.exists /\ q \in overrides.cols
    /\ d \in DOMAIN overrides.rows /\ ~overrides.rows[d][q].na

\* The overrides step is step i of the run and the final guardrails followed.
OverridesThenGuardrails(i) ==
    /\ i + 1 <= Len(steps)
    /\ steps[i].step = "overrides" /\ steps[i + 1].step = "guardrails"

\* Overrides as stated: an override p50 >= 0 of an open day is the final p50,
\* and what the file has no value for reaches the guardrails as calibrated.
OverridesReachGuardrails(i) ==
    \A d \in DOMAIN steps[i].input.rows :
        /\ (/\ HasOverride(d, "p50") /\ RLe(RZero, overrides.rows[d].p50.v)
            /\ steps[i + 1].output.rows[d].is_closed # "T")
               => steps[i + 1].output.rows[d].p50 = overrides.rows[d].p50.v
        /\ \A q \in {"p50", "p80", "p90"} :
              ~HasOverride(d, q) => steps[i].output.rows[d][q] = steps[i].input.rows[d][q]

\* The guardrails of step j zero the closed days and, on the other days,
\* keep p50 and raise p80 and p90 only as far as p50 <= p80 <= p90 needs.
GuardrailsOnlyRaiseUpper(j) ==
    \A d \in DOMAIN steps[j].input.rows :
        LET in == steps[j].input.rows[d]
            out == steps[j].output.rows[d]
        IN  IF out.is_closed = "T"
            THEN out.p50 = RZero /\ out.p80 = RZero /\ out.p90 = RZero
            ELSE /\ out.p50 = in.p50
                 /\ out.p80 = RMax(in.p50, in.p80)
                 /\ out.p90 = RMax(out.p80, in.p90)

\* The same with the clamp: a negative quantile is first raised to 0.
GuardrailsClampAndRaiseUpper(j) ==
    \A d \in DOMAIN steps[j].input.rows :
        LET in == steps[j].input.rows[d]
            out == steps[j].output.rows[d]
        IN  IF out.is_closed = "T"
            THEN out.p50 = RZero /\ out.p80 = RZero /\ out.p90 = RZero
            ELSE /\ out.p50 = RMax(in.p50, RZero)
                 /\ out.p80 = RMax(out.p50, RMax(in.p80, RZero))
                 /\ out.p90 = RMax(out.p80, RMax(in.p90, RZero))

\* C27: an override p50 >= 0 of an open day is the final p50; dates and
\* quantiles without a value in the file reach the final guardrails with
\* their calibrated values; the final guardrails only raise p80 and p90
\* where p50 <= p80 <= p90 needs it and zero the closed days.
C27_OverridesThenOnlyRaise ==
    \A i \in 1..Len(steps) :
        OverridesThenGuardrails(i) =>
            OverridesReachGuardrails(i) /\ GuardrailsOnlyRaiseUpper(i + 1)

\* C27 with the clamp: the final guardrails also raise a negative quantile
\* (a negative override value) to 0 before they order the quantiles.
C27_OverridesThenClampAndRaise ==
    \A i \in 1..Len(steps) :
        OverridesThenGuardrails(i) =>
            OverridesReachGuardrails(i) /\ GuardrailsClampAndRaiseUpper(i + 1)

\* A run whose override file set a p50 >= 0 on an open day, left a quantile
\* of a listed date and a whole date without a value, and whose final
\* guardrails raised a p80 and zeroed a closed day that had an override.
C27_Witness ==
    \E i \in 1..Len(steps) :
        /\ OverridesThenGuardrails(i)
        /\ \E d \in DOMAIN steps[i].input.rows :
              /\ HasOverride(d, "p50") /\ RLe(RZero, overrides.rows[d].p50.v)
              /\ steps[i + 1].output.rows[d].is_closed # "T"
              /\ overrides.rows[d].p50.v # steps[i].input.rows[d].p50
              /\ RLt(steps[i + 1].input.rows[d].p80, steps[i + 1].output.rows[d].p80)
        /\ \E d \in DOMAIN steps[i].input.rows : d \notin DOMAIN overrides.rows

\* A run whose override file held a negative p50 for an open day.
C27_NegativeOverride ==
    \E i \in 1..Len(steps) :
        /\ OverridesThenGuardrails(i)
        /\ \E d \in DOMAIN steps[i].input.rows :
              /\ HasOverride(d, "p50") /\ RLt(overrides.rows[d].p50.v, RZero)
              /\ steps[i + 1].output.rows[d].is_closed # "T"

\* The growth-calibration step of the run kept a result of
\* apply_growth_calibration: its output carries the calibration_scale column.
CalibrationResultKept ==
    \E i \in 1..Len(steps) :
        steps[i].step = "growth_calibration" /\ "calibration_scale" \in steps[i].output.cols

\* C28: the calibration_mode of the run metadata record is 'annual' or
\* 'monthly' only if apply_growth_calibration returned and its result was
\* kept, and then it is the mode that was applied; it is 'none' when growth
\* calibration was disabled or failed to give a result.
C28_RunLogModeIsAppliedMode ==
    run_log.written =>
        /\ run_log.calibration_mode \in {"annual", "monthly"} => CalibrationResultKept
        /\ CalibrationResultKept => run_log.calibration_mode = config.growth_calibration.mode
        /\ ~CalibrationResultKept => run_log.calibration_mode = "none"

\* The weights dict predict uses for date d of the call.
CallBucketWeights(d) ==
    BucketWeights(call.weights, WeightModels(call.weights),
                  DateBucket(call.model_predictions, d))

\* Model m has a prediction for d but no entry in the weights of d's bucket,
\* and another model with a prediction for d has a positive weight there.
UnweightedBesideWeighted(d, m) ==
    /\ m \in AvailableModels(call.model_predictions, d)
    /\ m \notin DOMAIN CallBucketWeights(d)
    /\ \E o \in AvailableModels(call.model_predictions, d) \ {m} :
          o \in DOMAIN CallBucketWeights(d) /\ RLt(RZero, CallBucketWeights(d)[o])

\* The blend of the call's predictions without those of model m.
BlendWithout(m) ==
    EnsemblePredict(call.weights, WeightModels(call.weights),
                    [x \in DOMAIN call.model_predictions \ {m} |-> call.model_predictions[x]])

\* C29: a model with predictions but without an entry in the weights of the
\* date's bucket has weight 0 in the blend of every date on which another
\* present model has a positive weight, and the blended p50/p80/p90 of such a
\* date are those of the blend without the model; Chronos-2 is such a model,
\* being none of the models whose out-of-fold predictions run_pipeline fits.
C29_UnweightedModelIgnored ==
    /\ "chronos2" \notin DOMAIN BacktestPredsPaths
    /\ (call.fn = "predict" /\ Returned) =>
          \A d \in DOMAIN ret.norm_w :
              \A m \in AvailableModels(call.model_predictions, d) :
                  UnweightedBesideWeighted(d, m) =>
                      /\ ret.norm_w[d][m] = RZero
                      /\ \A q \in {"p50", "p80", "p90"} :
                            ret.df.rows[d][q] = BlendWithout(m).rows[d][q]

\* A blend with Chronos-2 predictions that no weight was fitted for, beside
\* two weighted models, Chronos-2's p50 differing from the blended p50.
C29_Witness ==
    /\ call.fn = "predict" /\ Returned
    /\ \E d \in DOMAIN ret.norm_w :
          /\ UnweightedBesideWeighted(d, "chronos2")
          /\ Cardinality(AvailableModels(call.model_predictions, d)) = 3
          /\ "chronos2" \notin WeightModels(call.weights)
          /\ call.model_predictions["chronos2"][d].p50 # ret.df.rows[d].p50

\* The multipliers of the flags that are active on day d of the call and
\* have a multiplier.
ActiveOofMultipliers(d) ==
    {call.multipliers[f] : f \in call.df_forecast[d].active \cap DOMAIN call.multipliers}

\* C30: apply_spike_overlay gives each day one multiplier: the maximum of the
\* multipliers of the flags active on the day (never their product), and 1.0
\* on a day without an active flag.
C30_OofOverlayMax ==
    (call.fn = "apply_spike_overlay" /\ Returned) =>
        \A d \in DOMAIN ret.df :
            LET ms == ActiveOofMultipliers(d)
            IN  IF ms = {} THEN ret.df[d].overlay_multiplier = ROne
                ELSE /\ ret.df[d].overlay_multiplier \in ms
                     /\ \A m \in ms : RLe(m, ret.df[d].overlay_multiplier)

\* The same for the days on which some active flag has a multiplier of 1.0
\* or more.
C30_OofOverlayMaxOfUplifts ==
    (call.fn = "apply_spike_overlay" /\ Returned) =>
        \A d \in DOMAIN ret.df :
            LET ms == ActiveOofMultipliers(d)
            IN  IF ms = {} THEN ret.df[d].overlay_multiplier = ROne
                ELSE (\E m \in ms : RLe(ROne, m)) =>
                     /\ ret.df[d].overlay_multiplier \in ms
                     /\ \A m \in ms : RLe(m, ret.df[d].overlay_multiplier)

====
